---- MODULE Spec2Model ----
(***************************************************************************)
(* The tool-calling gateway of the project tracker: the tool registry and  *)
(* the handler table of the three server variants, the agent loop of       *)
(* POST /chat, and the direct transports POST /tools/:name, POST /mcp,     *)
(* POST /upload and GET /tools.                                            *)
(*                                                                         *)
(* One request is followed from its arrival to its response.  The route    *)
(* code runs atomically between two awaits, so the steps of the model are  *)
(* the pieces of route code between awaits; the completion API and the     *)
(* handlers' interiors are the environment and answer nondeterministically *)
(* (a handler returns a result or throws an error carrying a message).     *)
(***************************************************************************)
EXTENDS Naturals, Sequences, FiniteSets, TLC

(***************************************************************************)
(* Registry and handler table                                              *)
(***************************************************************************)

\* The name fields of the descriptors of `const tools = [...]`, in source order.
toolsChat ==
  <<
    "list_companies", "get_company", "update_company_status", "list_milestones",
    "update_milestone", "add_milestone", "add_note", "get_recent_activity",
    "update_requirement", "add_requirement", "list_documents", "add_document",
    "add_contact", "list_contacts", "get_portfolio_summary", "send_email",
    "send_project_update", "list_dev_tasks", "add_dev_task", "update_dev_task",
    "delete_dev_task"
  >>

\* The own property names of the object literal `const handlers = {...}`.
handlersChat ==
  {
    "list_companies", "get_company", "update_company_status", "list_milestones",
    "update_milestone", "add_milestone", "add_note", "get_recent_activity",
    "update_requirement", "add_requirement", "list_documents", "add_document",
    "add_contact", "list_contacts", "get_portfolio_summary", "send_email",
    "send_project_update", "list_dev_tasks", "add_dev_task", "update_dev_task",
    "delete_dev_task"
  }

\* The name fields of the descriptors of `const tools = [...]`, in source order.
toolsExtended ==
  <<
    "list_companies", "get_company", "update_company_status", "list_milestones",
    "update_milestone", "add_milestone", "add_note", "get_recent_activity",
    "update_requirement", "add_requirement", "list_documents", "add_document",
    "add_contact", "list_contacts", "get_portfolio_summary", "send_email",
    "send_project_update", "list_dev_tasks", "add_dev_task", "update_dev_task",
    "delete_dev_task", "upload_document", "get_document_content", "list_all_documents",
    "delete_document", "list_deployments", "get_deployment", "add_deployment",
    "update_deployment", "update_deployment_component", "delete_deployment",
    "check_deployment_health", "list_emails", "get_email", "list_calendar_events",
    "create_calendar_event"
  >>

\* The own property names of the object literal `const handlers = {...}`.
handlersExtended ==
  {
    "list_companies", "get_company", "update_company_status", "list_milestones",
    "update_milestone", "add_milestone", "add_note", "get_recent_activity",
    "update_requirement", "add_requirement", "list_documents", "add_document",
    "add_contact", "list_contacts", "get_portfolio_summary", "send_email",
    "send_project_update", "list_dev_tasks", "add_dev_task", "update_dev_task",
    "delete_dev_task", "upload_document", "get_document_content", "list_all_documents",
    "delete_document", "list_deployments", "get_deployment", "add_deployment",
    "update_deployment", "update_deployment_component", "delete_deployment",
    "check_deployment_health", "list_emails", "get_email", "list_calendar_events",
    "create_calendar_event"
  }

\* The name fields of the descriptors of `const tools = [...]`, in source order.
toolsBase ==
  <<
    "list_companies", "get_company", "update_company_status", "list_milestones",
    "update_milestone", "add_milestone", "add_note", "get_recent_activity",
    "update_requirement", "add_requirement", "list_documents", "add_document",
    "add_contact", "list_contacts", "get_portfolio_summary", "send_email",
    "send_project_update"
  >>

\* The own property names of the object literal `const handlers = {...}`.
handlersBase ==
  {
    "list_companies", "get_company", "update_company_status", "list_milestones",
    "update_milestone", "add_milestone", "add_note", "get_recent_activity",
    "update_requirement", "add_requirement", "list_documents", "add_document",
    "add_contact", "list_contacts", "get_portfolio_summary", "send_email",
    "send_project_update"
  }

Variants == {"chat", "extended", "base"}

tools(v) ==
  CASE v = "chat" -> toolsChat
    [] v = "extended" -> toolsExtended
    [] v = "base" -> toolsBase

\* ownHandlers with the chat variant's handler table lacking the handler of
\* its last descriptor.
ownHandlersLackingOne(v) ==
  CASE v = "chat" -> handlersChat \ {"delete_dev_task"}
    [] v = "extended" -> handlersExtended
    [] v = "base" -> handlersBase

ownHandlers(v) ==
  CASE v = "chat" -> handlersChat
    [] v = "extended" -> handlersExtended
    [] v = "base" -> handlersBase

\* Routes each variant registers with app.get / app.post.
routes(v) ==
  CASE v = "chat" -> {"chat", "tools_post", "mcp_post", "tools_get"}
    [] v = "extended" -> {"chat", "upload", "tools_post", "mcp_post", "tools_get"}
    [] v = "base" -> {"tools_post", "mcp_post", "tools_get"}

\* `handlers` is an object literal, so handlers[name] also finds what the
\* literal inherits from Object.prototype: its methods (callable) and the
\* __proto__ accessor (Object.prototype itself: truthy, not callable).
ObjectPrototypeFunctions ==
  {"constructor", "toString", "toLocaleString", "valueOf", "hasOwnProperty",
   "isPrototypeOf", "propertyIsEnumerable"}

\* What the expression handlers[name] evaluates to.
HandlersLookup(v, name) ==
  IF name \in ownHandlers(v) THEN "own"
  ELSE IF name \in ObjectPrototypeFunctions THEN "inherited"
  ELSE IF name = "__proto__" THEN "prototype"
  ELSE "undefined"

\* !handlers[name]
Falsy(lookup) == lookup = "undefined"

\* handlers[name](...) can be called; otherwise the call throws a TypeError.
Callable(lookup) == lookup \in {"own", "inherited"}

TypeErrorNotFunction == "handlers[name] is not a function"

(***************************************************************************)
(* Values                                                                  *)
(***************************************************************************)

\* JavaScript values of the request bodies, tagged by their kind.
UndefinedV == [kind |-> "undefined"]
NullV == [kind |-> "null"]
StringV(s) == [kind |-> "string", s |-> s]
ObjectV(fields) == [kind |-> "object", fields |-> fields]
ArrayV(items) == [kind |-> "array", items |-> items]
EmptyObject == ObjectV(<<>>)

\* JavaScript truthiness of a tagged value (the tests !message, args || {}).
Truthy(v) ==
  CASE v.kind \in {"undefined", "null"} -> FALSE
    [] v.kind = "string" -> v.s # ""
    [] OTHER -> TRUE

\* JSON.stringify(value) and JSON.stringify(value, null, 2): a text that
\* carries the value, not the value itself.
Stringify(v) == [json |-> v]
StringifyIndented(v) == [json |-> v, indent |-> 2]

\* Content blocks of a completion response.
TextBlock(t) == [type |-> "text", text |-> t]
ToolUseBlock(id, name, input) ==
  [type |-> "tool_use", id |-> id, name |-> name, input |-> input]

\* Conversation turns.  A turn's content is a plain string or a list of blocks.
TextContent(s) == [text |-> s]
BlockContent(blocks) == [blocks |-> blocks]
Turn(role, content) == [role |-> role, content |-> content]

HttpResponse(status, body) == [status |-> status, body |-> body]
ErrorBody(msg) == [error |-> msg]

(***************************************************************************)
(* Inputs: what clients, the completion API and the handlers may supply.   *)
(***************************************************************************)

\* Largest number of tool rounds the completion API asks for in one request.
MaxRounds == 2

ArgsA == ObjectV(<<"slug", "acme">>)

\* Tool names a caller or the model may name: registered in every variant,
\* registered in the extended variant only, unknown, inherited from
\* Object.prototype, and the prototype accessor.
NameInputs ==
  {"list_companies", "upload_document", "no_such_tool", "constructor", "__proto__"}

ChatToolNames == {"list_companies", "no_such_tool", "constructor"}

MessageInputs == {UndefinedV, StringV(""), StringV("status of acme?")}

OldTurn == Turn("assistant", TextContent("earlier answer"))

HistoryInputs == {UndefinedV, NullV, ArrayV(<<OldTurn>>)}

\* Results a handler may return and messages of the errors it may throw.
ResultValues == {ObjectV(<<"success", "true">>)}
ErrorMessages == {"Company not found: acme"}
CompletionErrors == {"Connection error."}

\* What an inherited Object.prototype method returns when called as
\* handlers[name](arg): never a rejection.
InheritedResult(name, arg) == [kind |-> "inherited", of |-> name, arg |-> arg]

InheritedResults ==
  {InheritedResult(n, a) : n \in ObjectPrototypeFunctions, a \in {EmptyObject, ArgsA}}

\* Contents of the n-th completion response; the API gives every tool_use
\* block an id of its own.
ResponseContents(n) ==
  {<<>>, <<TextBlock("done")>>, <<TextBlock(""), TextBlock("done")>>}
  \cup {<<ToolUseBlock(<<n, 1>>, name, ArgsA)>> : name \in ChatToolNames}
  \cup {<<TextBlock("let me check"), ToolUseBlock(<<n, 2>>, "list_companies", ArgsA),
          ToolUseBlock(<<n, 3>>, name, ArgsA)>> : name \in {"list_companies", "no_such_tool"}}

StopReasons == {"tool_use", "end_turn", "max_tokens"}

CompletionResponses(n) ==
  {[stop_reason |-> s, content |-> c] : s \in StopReasons, c \in ResponseContents(n)}

(***************************************************************************)
(* State                                                                   *)
(***************************************************************************)

VARIABLES
  variant,      \* which server variant runs
  req,          \* the request being served
  pc,           \* where its route handler stands
  messages,     \* POST /chat: the local array `messages`
  response,     \* POST /chat: the local `response`
  blockIdx,     \* POST /chat: position of `for (const block of response.content)`
  toolResults,  \* POST /chat: the local array `toolResults`
  received,     \* the completion responses the API has returned, in order
  completions,  \* the `messages` argument of each completion request sent
  invoked,      \* every call handlers[name](args) made, in order
  thrown,       \* every error raised by a handler call or a completion request
  responses     \* the HTTP responses written for the request

\* check_deployment_health: the table it reads and writes, and its locals.
VARIABLES
  deployment_components,  \* the rows of the table deployment_components
  healthPc,               \* where the handler call stands
  deployment_id,          \* its argument
  components,             \* the rows its select returned
  compIdx,                \* position of `for (const comp of components || [])`
  results,                \* the local object `results`
  fetched,                \* the URL of every fetch() issued, in order
  update,                 \* the row update and result entry about to be written
  healthResult,           \* what the call returned or threw
  storeFailures           \* the store operations of the call that failed

\* GET /mcp: the event streams of the clients.
VARIABLES
  connection,  \* per client: whether its request is open or has closed
  stream,      \* per client: the events written to its response
  keepAlive,   \* per client: the interval timer of its request
  periods      \* per client: the 30 s periods elapsed since its request

\* The store-backed handlers: the tables, the calls made, the mails sent.
VARIABLES
  db,            \* the rows of each table, and the objects of the storage bucket
  handlerCalls,  \* every handler call made, with its position and its locals
  mails          \* the mails handed to the mail transport

transportVars ==
  <<variant, req, pc, messages, response, blockIdx, toolResults, received,
    completions, invoked, thrown, responses>>

healthVars ==
  <<deployment_components, healthPc, deployment_id, components, compIdx,
    results, fetched, update, healthResult, storeFailures>>

sseVars == <<connection, stream, keepAlive, periods>>

storeVars == <<db, handlerCalls, mails>>

vars == <<transportVars, healthVars, sseVars, storeVars>>

\* The variables a call of check_deployment_health leaves alone.
outsideHealth == <<transportVars, sseVars, storeVars>>

\* The variables GET /mcp leaves alone.
outsideSse == <<transportVars, healthVars, storeVars>>

\* The variables the other store-backed handlers leave alone.
outsideStore == <<transportVars, healthVars, sseVars>>

chatVars == <<messages, response, blockIdx, toolResults, received, completions>>

NoRequest == [endpoint |-> "none"]
NoResult == [kind |-> "none"]

\* Empty tables, no call made, no mail sent.
EmptyDb ==
  [companies |-> <<>>, milestones |-> <<>>, activity |-> <<>>,
   requirements |-> <<>>, documents |-> <<>>, contacts |-> <<>>,
   dev_tasks |-> <<>>, deployments |-> <<>>, storage |-> {}]

StoreIdle ==
  /\ db = EmptyDb
  /\ handlerCalls = <<>>
  /\ mails = <<>>

Clients == {"client-1", "client-2"}

\* No client has requested GET /mcp.
SseIdle ==
  /\ connection = [c \in Clients |-> [state |-> "none", at |-> 0]]
  /\ stream = [c \in Clients |-> <<>>]
  /\ keepAlive = [c \in Clients |-> "none"]
  /\ periods = [c \in Clients |-> 0]

\* No call of check_deployment_health has been made.
HealthIdle ==
  /\ healthPc = "idle"
  /\ deployment_id = ""
  /\ components = <<>>
  /\ compIdx = 0
  /\ results = [t \in {} |-> NoResult]
  /\ fetched = <<>>
  /\ update = NoResult
  /\ healthResult = NoResult
  /\ storeFailures = <<>>

NoResponse == [stop_reason |-> "none", content |-> <<>>]

Init ==
  /\ variant \in Variants
  /\ req = NoRequest
  /\ pc = "idle"
  /\ messages = <<>>
  /\ response = NoResponse
  /\ blockIdx = 0
  /\ toolResults = <<>>
  /\ received = <<>>
  /\ completions = <<>>
  /\ invoked = <<>>
  /\ thrown = <<>>
  /\ responses = <<>>
  /\ deployment_components = <<>>
  /\ HealthIdle
  /\ SseIdle
  /\ StoreIdle

Invocation(name, args, fn) == [name |-> name, args |-> args, fn |-> fn]

\* An error raised by the handler call that answers tool call `call`
\* (DirectCall for a call made by a direct route).
HandlerError(call, msg) == [kind |-> "handler", call |-> call, message |-> msg]
DirectCall == <<0, 0>>

\* An error raised by a completion request, with what had been done by then.
CompletionError(msg) ==
  [kind |-> "completion", message |-> msg, invokedBefore |-> Len(invoked),
   sentBefore |-> Len(completions)]

Last(s) == s[Len(s)]

(***************************************************************************)
(* POST /chat: the agent loop                                              *)
(***************************************************************************)

\* const { message, conversation_history = [] } = req.body
HistoryItems(h) == IF h.kind = "undefined" THEN <<>> ELSE h.items

\* [...conversation_history, { role: 'user', content: message }]
InitialMessages(h, m) == HistoryItems(h) \o <<Turn("user", TextContent(m.s))>>

\* The loop gives up after its first round.
LoopContinuesOnce(resp) == resp.stop_reason = "tool_use" /\ received = <<>>

\* while (response.stop_reason === 'tool_use')
LoopContinues(resp) == resp.stop_reason = "tool_use"

\* BatchComplete leaving the loop after the first tool call has been answered.
BatchCompleteAfterFirstResult(i, content) ==
  \/ i > Len(content)
  \/ \E j \in 1..(i - 1) : j <= Len(content) /\ content[j].type = "tool_use"

\* The for-of loop over response.content is exhausted.
BatchComplete(i, content) == i > Len(content)

\* OkResult with the entry not tagged with the id of the call it answers.
OkResultWithoutCallId(block, result) ==
  [type |-> "tool_result", tool_use_id |-> DirectCall, content |-> Stringify(result)]

\* toolResults.push({type, tool_use_id, content: JSON.stringify(result)})
OkResult(block, result) ==
  [type |-> "tool_result", tool_use_id |-> block.id, content |-> Stringify(result)]

\* toolResults.push({..., content: JSON.stringify({error: err.message}), is_error: true})
ErrorResult(block, msg) ==
  [type |-> "tool_result", tool_use_id |-> block.id,
   content |-> Stringify(ErrorBody(msg)), is_error |-> TRUE]

\* response.content.find(b => b.type === 'text')
FirstTextIndex(content) ==
  IF \E i \in 1..Len(content) : content[i].type = "text"
  THEN CHOOSE i \in 1..Len(content) :
         /\ content[i].type = "text"
         /\ \A j \in 1..(i - 1) : content[j].type # "text"
  ELSE 0

\* FinalResponse without the fallback for an empty text.
FinalResponseNoFallbackOnEmpty(content) ==
  LET i == FirstTextIndex(content) IN
    IF i # 0 THEN content[i].text ELSE "No response"

\* textContent?.text || 'No response'
FinalResponse(content) ==
  LET i == FirstTextIndex(content) IN
    IF i # 0 /\ content[i].text # "" THEN content[i].text ELSE "No response"

\* FinalHistory returning `messages` without the final assistant turn.
FinalHistoryWithoutFinalTurn(msgs, resp) == msgs

\* messages.concat([{ role: 'assistant', content: response.content }])
FinalHistory(msgs, resp) == msgs \o <<Turn("assistant", BlockContent(resp.content))>>

Respond(status, body) ==
  /\ responses' = Append(responses, HttpResponse(status, body))
  /\ pc' = "done"

\* The request arrives; the route runs up to the first completion request.
ChatReceive(m, h) ==
  /\ pc = "idle"
  /\ "chat" \in routes(variant)
  /\ req' = [endpoint |-> "chat", message |-> m, history |-> h]
  /\ IF ~Truthy(m)
       THEN /\ Respond(400, ErrorBody("Message required"))
            /\ UNCHANGED <<messages, completions>>
       ELSE IF h.kind = "null"
         THEN \* spreading null throws a TypeError, caught by the route's catch
              /\ Respond(500, ErrorBody("conversation_history is not iterable"))
              /\ UNCHANGED <<messages, completions>>
         ELSE /\ messages' = InitialMessages(h, m)
              /\ completions' = Append(completions, messages')
              /\ pc' = "awaitCompletion"
              /\ UNCHANGED responses
  /\ UNCHANGED <<variant, response, blockIdx, toolResults, received, invoked, thrown>>

\* anthropic.messages.create resolves with resp; the loop test follows.
CompletionReturns(resp) ==
  /\ pc = "awaitCompletion"
  /\ received' = Append(received, resp)
  /\ response' = resp
  /\ IF LoopContinues(resp)
       THEN /\ messages' = Append(messages, Turn("assistant", BlockContent(resp.content)))
            /\ toolResults' = <<>>
            /\ blockIdx' = 1
            /\ pc' = "forBlocks"
            /\ UNCHANGED responses
       ELSE /\ Respond(200, [response |-> FinalResponse(resp.content),
                             conversation_history |-> FinalHistory(messages, resp)])
            /\ UNCHANGED <<messages, toolResults, blockIdx>>
  /\ UNCHANGED <<variant, req, completions, invoked, thrown>>

\* CompletionFails with the request sent again instead of the catch answering.
CompletionFailsAndRetries(msg) ==
  /\ pc = "awaitCompletion"
  /\ Len(completions) = Len(received) + 1
  /\ thrown' = Append(thrown, CompletionError(msg))
  /\ completions' = Append(completions, messages)
  /\ UNCHANGED <<variant, req, pc, messages, response, blockIdx, toolResults, received,
                 invoked, responses>>

\* anthropic.messages.create rejects: the route's catch answers 500.
CompletionFails(msg) ==
  /\ pc = "awaitCompletion"
  /\ thrown' = Append(thrown, CompletionError(msg))
  /\ Respond(500, ErrorBody(msg))
  /\ UNCHANGED <<variant, req, chatVars, invoked>>

\* One iteration of the for loop, up to the await of the handler call.
ChatBlock ==
  /\ pc = "forBlocks"
  /\ ~BatchComplete(blockIdx, response.content)
  /\ LET block == response.content[blockIdx] IN
       IF block.type # "tool_use"
         THEN /\ blockIdx' = blockIdx + 1
              /\ UNCHANGED <<pc, toolResults, invoked, thrown>>
         ELSE IF Callable(HandlersLookup(variant, block.name))
           THEN /\ invoked' = Append(invoked,
                       Invocation(block.name, block.input, HandlersLookup(variant, block.name)))
                /\ pc' = "awaitHandler"
                /\ UNCHANGED <<blockIdx, toolResults, thrown>>
           ELSE \* calling undefined throws inside the try: the catch runs
                /\ thrown' = Append(thrown, HandlerError(block.id, TypeErrorNotFunction))
                /\ toolResults' = Append(toolResults, ErrorResult(block, TypeErrorNotFunction))
                /\ blockIdx' = blockIdx + 1
                /\ UNCHANGED <<pc, invoked>>
  /\ UNCHANGED <<variant, req, messages, response, received, completions, responses>>

\* The awaited handler call resolves.
ChatHandlerReturns(result) ==
  /\ pc = "awaitHandler"
  /\ req.endpoint = "chat"
  /\ IF Last(invoked).fn = "inherited"
       THEN result = InheritedResult(Last(invoked).name, Last(invoked).args)
       ELSE result \in ResultValues
  /\ toolResults' = Append(toolResults, OkResult(response.content[blockIdx], result))
  /\ blockIdx' = blockIdx + 1
  /\ pc' = "forBlocks"
  /\ UNCHANGED <<variant, req, messages, response, received, completions, invoked, thrown,
                 responses>>

\* The awaited handler call rejects: the per-block catch runs.
ChatHandlerThrows(msg) ==
  /\ pc = "awaitHandler"
  /\ req.endpoint = "chat"
  /\ Last(invoked).fn = "own"
  /\ thrown' = Append(thrown, HandlerError(response.content[blockIdx].id, msg))
  /\ toolResults' = Append(toolResults, ErrorResult(response.content[blockIdx], msg))
  /\ blockIdx' = blockIdx + 1
  /\ pc' = "forBlocks"
  /\ UNCHANGED <<variant, req, messages, response, received, completions, invoked, responses>>

\* After the for loop: push the batch and send the next completion request.
ChatEndBatch ==
  /\ pc = "forBlocks"
  /\ BatchComplete(blockIdx, response.content)
  /\ messages' = Append(messages, Turn("user", BlockContent(toolResults)))
  /\ completions' = Append(completions, messages')
  /\ pc' = "awaitCompletion"
  /\ UNCHANGED <<variant, req, response, blockIdx, toolResults, received, invoked, thrown,
                 responses>>

\* What the next completion request may resolve with: the API stops asking
\* for tools after MaxRounds rounds.
CompletionOutcomes ==
  {resp \in CompletionResponses(Len(received) + 1) :
     resp.stop_reason = "tool_use" => Len(received) < MaxRounds}

ChatNext ==
  \/ \E m \in MessageInputs, h \in HistoryInputs : ChatReceive(m, h)
  \/ \E resp \in CompletionOutcomes : CompletionReturns(resp)
  \/ \E msg \in CompletionErrors : CompletionFails(msg)
  \/ ChatBlock
  \/ \E result \in ResultValues \cup InheritedResults : ChatHandlerReturns(result)
  \/ \E msg \in ErrorMessages : ChatHandlerThrows(msg)
  \/ ChatEndBatch

(***************************************************************************)
(* POST /tools/:name, POST /mcp, POST /upload, GET /tools                  *)
(***************************************************************************)

BodyInputs == {EmptyObject, ArgsA}

MethodInputs == {"initialize", "tools/list", "tools/call", "resources/list", "toString"}

\* params of a POST /mcp body: absent, or an object with name and arguments.
CallParams(name, arguments) == [kind |-> "object", name |-> name, arguments |-> arguments]

ParamsInputs ==
  {UndefinedV} \cup {CallParams(n, a) : n \in NameInputs, a \in {UndefinedV, ArgsA}}

UploadBody(slug, filename, content_base64, content_type) ==
  [slug |-> slug, filename |-> filename, content_base64 |-> content_base64,
   content_type |-> content_type]

UploadInputs ==
  {UploadBody(StringV("acme"), StringV("plan.md"), StringV("aGk="), StringV("text/markdown")),
   UploadBody(StringV("acme"), UndefinedV, StringV("aGk="), StringV("text/markdown")),
   UploadBody(StringV(""), StringV("plan.md"), StringV("aGk="), StringV("text/markdown")),
   UploadBody(StringV("acme"), StringV("plan.md"), StringV("aGk="), UndefinedV),
   UploadBody(StringV("acme"), StringV("plan.md"), StringV(""), StringV("text/markdown"))}

\* The body of the 'initialize' answer.
CapabilityDescriptor ==
  [protocolVersion |-> "2024-11-05",
   serverInfo |-> [name |-> "project-tracker", version |-> "1.0.0"],
   capabilities |-> [tools |-> <<>>]]

ToolNotFound(name) == ErrorBody(<<"Tool not found: ", name>>)
UnknownMethod(method) == ErrorBody(<<"Unknown method: ", method>>)

\* if (!handlers[name]) return res.status(404)...
ToolMissing(v, name) == Falsy(HandlersLookup(v, name))

\* args || {}
ArgsOrEmpty(args) == IF Truthy(args) THEN args ELSE EmptyObject

\* if (!slug || !filename || !content_base64 || !content_type)
UploadFieldsMissing(body) ==
  \/ ~Truthy(body.slug)
  \/ ~Truthy(body.filename)
  \/ ~Truthy(body.content_base64)
  \/ ~Truthy(body.content_type)

\* The route calls handlers[name](args): the call is made and awaited, or it
\* throws a TypeError at once when handlers[name] is not a function.
CallHandler(name, args) ==
  IF Callable(HandlersLookup(variant, name))
    THEN /\ invoked' = Append(invoked, Invocation(name, args, HandlersLookup(variant, name)))
         /\ pc' = "awaitHandler"
         /\ UNCHANGED <<responses, thrown>>
    ELSE /\ thrown' = Append(thrown, HandlerError(DirectCall, TypeErrorNotFunction))
         /\ Respond(500, ErrorBody(TypeErrorNotFunction))
         /\ UNCHANGED invoked

\* app.post('/tools/:name')
ToolsPost(name, body) ==
  /\ pc = "idle"
  /\ "tools_post" \in routes(variant)
  /\ req' = [endpoint |-> "tools_post", name |-> name, body |-> body]
  /\ IF ToolMissing(variant, name)
       THEN /\ Respond(404, ToolNotFound(name))
            /\ UNCHANGED <<invoked, thrown>>
       ELSE CallHandler(name, body)
  /\ UNCHANGED <<variant, chatVars>>

\* app.post('/mcp')
McpPost(method, params) ==
  /\ pc = "idle"
  /\ "mcp_post" \in routes(variant)
  /\ req' = [endpoint |-> "mcp_post", method |-> method, params |-> params]
  /\ CASE method = "initialize" ->
            /\ Respond(200, CapabilityDescriptor)
            /\ UNCHANGED <<invoked, thrown>>
       [] method = "tools/list" ->
            /\ Respond(200, [tools |-> tools(variant)])
            /\ UNCHANGED <<invoked, thrown>>
       [] method = "tools/call" ->
            IF params.kind # "object"
              THEN \* destructuring undefined throws inside the try
                   /\ Respond(500, ErrorBody("Cannot destructure property 'name'"))
                   /\ UNCHANGED <<invoked, thrown>>
              ELSE IF ToolMissing(variant, params.name)
                THEN /\ Respond(404, ToolNotFound(params.name))
                     /\ UNCHANGED <<invoked, thrown>>
                ELSE CallHandler(params.name, ArgsOrEmpty(params.arguments))
       [] OTHER ->
            /\ Respond(400, UnknownMethod(method))
            /\ UNCHANGED <<invoked, thrown>>
  /\ UNCHANGED <<variant, chatVars>>

\* app.post('/upload')
Upload(body) ==
  /\ pc = "idle"
  /\ "upload" \in routes(variant)
  /\ req' = [endpoint |-> "upload", body |-> body]
  /\ IF UploadFieldsMissing(body)
       THEN /\ Respond(400, ErrorBody("Missing required fields"))
            /\ UNCHANGED <<invoked, thrown>>
       ELSE CallHandler("upload_document", ObjectV(body))
  /\ UNCHANGED <<variant, chatVars>>

\* app.get('/tools')
ToolsGet ==
  /\ pc = "idle"
  /\ "tools_get" \in routes(variant)
  /\ req' = [endpoint |-> "tools_get"]
  /\ Respond(200, [tools |-> tools(variant)])
  /\ UNCHANGED <<variant, chatVars, invoked, thrown>>

\* What the route answers when the awaited handler call resolves.
SuccessBody(endpoint, result) ==
  CASE endpoint = "tools_post" -> [result |-> result]
    [] endpoint = "mcp_post" ->
         [content |-> <<[type |-> "text", text |-> StringifyIndented(result)]>>]
    [] endpoint = "upload" -> result

\* The awaited handler call of a direct route resolves.
DirectHandlerReturns(result) ==
  /\ pc = "awaitHandler"
  /\ req.endpoint \in {"tools_post", "mcp_post", "upload"}
  /\ IF Last(invoked).fn = "inherited"
       THEN result = InheritedResult(Last(invoked).name, Last(invoked).args)
       ELSE result \in ResultValues
  /\ Respond(200, SuccessBody(req.endpoint, result))
  /\ UNCHANGED <<variant, req, chatVars, invoked, thrown>>

\* The awaited handler call of a direct route rejects: the catch answers 500.
DirectHandlerThrows(msg) ==
  /\ pc = "awaitHandler"
  /\ req.endpoint \in {"tools_post", "mcp_post", "upload"}
  /\ Last(invoked).fn = "own"
  /\ thrown' = Append(thrown, HandlerError(DirectCall, msg))
  /\ Respond(500, ErrorBody(msg))
  /\ UNCHANGED <<variant, req, chatVars, invoked>>

DirectNext ==
  \/ \E name \in NameInputs, body \in BodyInputs : ToolsPost(name, body)
  \/ \E method \in MethodInputs, params \in ParamsInputs : McpPost(method, params)
  \/ \E body \in UploadInputs : Upload(body)
  \/ ToolsGet
  \/ \E result \in ResultValues \cup InheritedResults : DirectHandlerReturns(result)
  \/ \E msg \in ErrorMessages : DirectHandlerThrows(msg)

Next ==
  \/ ChatNext /\ UNCHANGED <<healthVars, sseVars, storeVars>>
  \/ DirectNext /\ UNCHANGED <<healthVars, sseVars, storeVars>>


Spec == Init /\ [][Next]_vars

\* The steps POST /chat takes once its first completion request is out:
\* every completion request and every handler call settles, and the code
\* between two awaits runs to the next one.
ChatSteps ==
  \/ \E resp \in CompletionOutcomes : CompletionReturns(resp)
  \/ \E msg \in CompletionErrors : CompletionFails(msg)
  \/ ChatBlock
  \/ \E result \in ResultValues \cup InheritedResults : ChatHandlerReturns(result)
  \/ \E msg \in ErrorMessages : ChatHandlerThrows(msg)
  \/ ChatEndBatch

ChatOnlyNext == ChatNext /\ UNCHANGED <<healthVars, sseVars, storeVars>>

SpecChatFair ==
  /\ Init
  /\ [][ChatOnlyNext]_vars
  /\ WF_vars(ChatSteps /\ UNCHANGED <<healthVars, sseVars, storeVars>>)

(***************************************************************************)
(* Properties of the agent loop                                            *)
(***************************************************************************)

IsToolUse(b) == b.type = "tool_use"
IsText(b) == b.type = "text"
ToolUses(content) == SelectSeq(content, IsToolUse)
TextBlocks(content) == SelectSeq(content, IsText)
ToolUseIds(content) == [i \in 1..Len(ToolUses(content)) |-> ToolUses(content)[i].id]
ResultIds(batch) == [i \in 1..Len(batch) |-> batch[i].tool_use_id]
IsError(entry) == "is_error" \in DOMAIN entry /\ entry.is_error

\* The history the client supplied, and the number of turns before round 1.
Supplied == IF req.history.kind = "array" THEN req.history.items ELSE <<>>
BaseLen == Len(Supplied) + 1

\* Tool-result batches pushed so far, and the k-th of them.
BatchesPushed == IF Len(completions) = 0 THEN 0 ELSE Len(completions) - 1
Batch(k) == messages[BaseLen + 2 * k].content.blocks

ChatAnswered(status) ==
  /\ req.endpoint = "chat"
  /\ pc = "done"
  /\ Len(responses) > 0
  /\ Last(responses).status = status

\* C1: every completion request after the first is sent with the history of
\* the previous request extended by exactly the assistant's tool-call turn
\* and one batch holding a result for every tool call of that turn; no
\* completion request is in flight while tool calls of a turn are running,
\* and never more than one is outstanding.
C1_FullBatchBeforeNextCompletion ==
  /\ Len(completions) <= Len(received) + 1
  /\ pc \in {"forBlocks", "awaitHandler"} /\ req.endpoint = "chat"
       => Len(completions) = Len(received)
  /\ \A k \in 2..Len(completions) :
       LET sent == completions[k]
           before == completions[k - 1]
           prev == received[k - 1]
       IN /\ prev.stop_reason = "tool_use"
          /\ Len(sent) = Len(before) + 2
          /\ SubSeq(sent, 1, Len(before)) = before
          /\ sent[Len(sent) - 1] = Turn("assistant", BlockContent(prev.content))
          /\ Last(sent).role = "user"
          /\ ResultIds(Last(sent).content.blocks) = ToolUseIds(prev.content)

\* A second completion request has been sent after a turn of two tool
\* calls, one of which succeeded and one of which failed.
C1_Witness ==
  /\ Len(completions) >= 2
  /\ Len(Last(completions[2]).content.blocks) = 2
  /\ \E i, j \in 1..2 :
       /\ IsError(Last(completions[2]).content.blocks[i])
       /\ ~IsError(Last(completions[2]).content.blocks[j])

\* C2 (as claimed): every failed handler call, and every call that names a
\* tool with no handler, has a tool-result entry holding the serialized
\* {error: message} and marked is_error; the batch of the turn is complete,
\* the next completion request is sent, and the request is answered 500
\* only when a completion request fails or the supplied history cannot be
\* spread.
C2_FailedCallBecomesErrorResult ==
  req.endpoint = "chat" =>
    /\ \A i \in 1..Len(thrown) :
         thrown[i].kind = "handler" =>
           \E k \in 1..Len(received) :
             LET batch == IF k <= BatchesPushed THEN Batch(k) ELSE toolResults IN
               \E j \in 1..Len(batch) :
                 /\ batch[j].tool_use_id = thrown[i].call
                 /\ batch[j].content = Stringify(ErrorBody(thrown[i].message))
                 /\ IsError(batch[j])
    /\ \A k \in 1..BatchesPushed :
         /\ Len(Batch(k)) = Len(ToolUses(received[k].content))
         /\ \A j \in 1..Len(Batch(k)) :
              ToolUses(received[k].content)[j].name \notin ownHandlers(variant)
                => IsError(Batch(k)[j])
    /\ pc = "done" /\ Len(received) > 0 /\ Last(received).stop_reason = "tool_use"
         => Len(completions) = Len(received) + 1
    /\ ChatAnswered(500)
         => \/ req.history.kind = "null"
            \/ \E i \in 1..Len(thrown) : thrown[i].kind = "completion"

\* C2, for the calls that do fail: the same statement without the clause on
\* names that have no handler.
FailedCallBecomesErrorResult ==
  req.endpoint = "chat" =>
    /\ \A i \in 1..Len(thrown) :
         thrown[i].kind = "handler" =>
           \E k \in 1..Len(received) :
             LET batch == IF k <= BatchesPushed THEN Batch(k) ELSE toolResults IN
               \E j \in 1..Len(batch) :
                 /\ batch[j].tool_use_id = thrown[i].call
                 /\ batch[j].content = Stringify(ErrorBody(thrown[i].message))
                 /\ IsError(batch[j])
    /\ ChatAnswered(500)
         => \/ req.history.kind = "null"
            \/ \E i \in 1..Len(thrown) : thrown[i].kind = "completion"

\* C3: the batch pushed for a turn has exactly one tool_result entry per
\* tool_use block of the turn, in the order of the blocks, each tagged with
\* the id of its block; while a turn is being worked on, the entries
\* gathered so far answer exactly the tool_use blocks already passed.
C3_OneResultPerToolUse ==
  req.endpoint = "chat" =>
    /\ \A k \in 1..BatchesPushed :
         LET calls == ToolUses(received[k].content) IN
           /\ messages[BaseLen + 2 * k].role = "user"
           /\ Len(Batch(k)) = Len(calls)
           /\ \A j \in 1..Len(calls) :
                /\ Batch(k)[j].type = "tool_result"
                /\ Batch(k)[j].tool_use_id = calls[j].id
           /\ \A i, j \in 1..Len(Batch(k)) :
                Batch(k)[i].tool_use_id = Batch(k)[j].tool_use_id => i = j
    /\ pc \in {"forBlocks", "awaitHandler"}
         => ResultIds(toolResults)
              = ToolUseIds(SubSeq(response.content, 1, blockIdx - 1))

\* A batch of two results has been pushed for a turn of three blocks, the
\* first of which is a text block.
C3_Witness ==
  /\ BatchesPushed >= 1
  /\ Len(received[1].content) = 3
  /\ received[1].content[1].type = "text"
  /\ Len(Batch(1)) = 2
  /\ ~IsError(Batch(1)[1])

\* C4 (as claimed): a successful POST /chat has ended at the first response
\* that does not request tool calls, and answers the text of that response's
\* first text block, or 'No response' when it has no text block.
C4_AnswersFirstTextBlock ==
  ChatAnswered(200) =>
    LET final == Last(received) IN
      /\ final.stop_reason # "tool_use"
      /\ \A k \in 1..(Len(received) - 1) : received[k].stop_reason = "tool_use"
      /\ Last(responses).body.response =
           IF TextBlocks(final.content) # <<>>
             THEN TextBlocks(final.content)[1].text
             ELSE "No response"

\* C4 (amended): as above, but the answer is 'No response' also when the
\* first text block is the empty string; and a response that requests tool
\* calls (stop_reason 'tool_use') never ends the loop, while the first one
\* that does not ends it at once.
C4_AnswersFirstNonEmptyTextBlock ==
  /\ ChatAnswered(200) =>
       LET final == Last(received) IN
         /\ final.stop_reason # "tool_use"
         /\ \A k \in 1..(Len(received) - 1) : received[k].stop_reason = "tool_use"
         /\ Last(responses).body.response =
              IF TextBlocks(final.content) # <<>> /\ TextBlocks(final.content)[1].text # ""
                THEN TextBlocks(final.content)[1].text
                ELSE "No response"
  /\ \A k \in 1..Len(received) :
       received[k].stop_reason # "tool_use" => k = Len(received) /\ ChatAnswered(200)

\* The loop has ended after a tool round on a response whose first text
\* block is empty and whose second is not.
C4_Witness ==
  /\ ChatAnswered(200)
  /\ Len(received) = 2
  /\ Len(TextBlocks(Last(received).content)) = 2
  /\ TextBlocks(Last(received).content)[1].text = ""
  /\ Last(responses).body.response = "No response"

\* C5: once a completion request has failed, the request is over: its one
\* response is 500 with {error: message} and no conversation_history, and
\* no handler call and no completion request has been made since.
C5_CompletionFailureAborts ==
  \A i \in 1..Len(thrown) :
    thrown[i].kind = "completion" =>
      /\ pc = "done"
      /\ responses = <<HttpResponse(500, ErrorBody(thrown[i].message))>>
      /\ "conversation_history" \notin DOMAIN Last(responses).body
      /\ Len(invoked) = thrown[i].invokedBefore
      /\ Len(completions) = thrown[i].sentBefore

\* The completion request sent after a tool batch has failed.
C5_Witness ==
  /\ Len(thrown) > 0
  /\ Last(thrown).kind = "completion"
  /\ Last(thrown).sentBefore = 2
  /\ Last(thrown).invokedBefore >= 1

\* C6: the conversation_history of a successful POST /chat is the supplied
\* history, the new user message, then for every tool round the assistant's
\* tool-call turn followed by the round's tool-result batch, then the final
\* assistant turn, and nothing else.
C6_ReturnedHistory ==
  ChatAnswered(200) =>
    LET h == Last(responses).body.conversation_history
        n == Len(received)
    IN /\ Len(h) = BaseLen + 2 * (n - 1) + 1
       /\ SubSeq(h, 1, Len(Supplied)) = Supplied
       /\ h[BaseLen] = Turn("user", TextContent(req.message.s))
       /\ \A k \in 1..(n - 1) :
            /\ h[BaseLen + 2 * k - 1] = Turn("assistant", BlockContent(received[k].content))
            /\ h[BaseLen + 2 * k].role = "user"
            /\ ResultIds(h[BaseLen + 2 * k].content.blocks) = ToolUseIds(received[k].content)
       /\ h[Len(h)] = Turn("assistant", BlockContent(received[n].content))

\* A request with a supplied history has been answered after two tool rounds.
C6_Witness ==
  /\ ChatAnswered(200)
  /\ Len(Supplied) = 1
  /\ Len(received) = 3
  /\ Len(ToolUses(received[1].content)) = 2

(***************************************************************************)
(* Properties of the direct transports and of the registry                 *)
(***************************************************************************)

RegistryNames(v) == {tools(v)[i] : i \in 1..Len(tools(v))}
Registered(v, name) == name \in RegistryNames(v)

\* C7 (as claimed): POST /tools/{name} invokes nothing and answers 404 for
\* a name that is not a registered tool; for a registered name it calls that
\* tool's handler once with the request body and answers 200 {result}, or
\* 500 {error} when the handler fails.
C7_ToolsPostDispatch ==
  req.endpoint = "tools_post" =>
    IF ~Registered(variant, req.name)
      THEN /\ invoked = <<>>
           /\ pc = "done"
           /\ responses = <<HttpResponse(404, ToolNotFound(req.name))>>
      ELSE /\ invoked = <<Invocation(req.name, req.body, "own")>>
           /\ pc = "done" =>
                /\ Len(responses) = 1
                /\ \/ /\ thrown = <<>>
                      /\ Last(responses).status = 200
                      /\ DOMAIN Last(responses).body = {"result"}
                   \/ /\ Len(thrown) = 1
                      /\ Last(responses) = HttpResponse(500, ErrorBody(thrown[1].message))

\* C7, for the names handlers[name] does not resolve: those are answered
\* 404 with no call made, and a registered name is dispatched to its own
\* handler.
ToolsPostDispatchOfResolvedNames ==
  req.endpoint = "tools_post" =>
    /\ HandlersLookup(variant, req.name) = "undefined"
         => /\ invoked = <<>>
            /\ responses = <<HttpResponse(404, ToolNotFound(req.name))>>
    /\ Registered(variant, req.name)
         => invoked = <<Invocation(req.name, req.body, "own")>>

\* C8 (as claimed): POST /mcp answers 'initialize' with the capability
\* descriptor and 'tools/list' with the registry without calling anything;
\* under 'tools/call' the only call made is the one to the handler named in
\* params, with params.arguments or an empty mapping; any other method is
\* answered 400 without calling anything.
C8_McpDispatch ==
  req.endpoint = "mcp_post" =>
    CASE req.method = "initialize" ->
           /\ invoked = <<>>
           /\ responses = <<HttpResponse(200, CapabilityDescriptor)>>
      [] req.method = "tools/list" ->
           /\ invoked = <<>>
           /\ responses = <<HttpResponse(200, [tools |-> tools(variant)])>>
      [] req.method = "tools/call" ->
           /\ Len(invoked) <= 1
           /\ \A i \in 1..Len(invoked) :
                /\ invoked[i].fn = "own"
                /\ invoked[i].name = req.params.name
                /\ invoked[i].args =
                     IF req.params.arguments.kind = "undefined"
                       THEN EmptyObject
                       ELSE req.params.arguments
           /\ req.params.kind = "object" /\ Registered(variant, req.params.name)
                => Len(invoked) = 1
      [] OTHER ->
           /\ invoked = <<>>
           /\ Len(responses) = 1
           /\ Last(responses).status = 400

\* C9 (as claimed): a request gets one response, never two and, once its
\* route has run, never none; when a handler call has thrown, that response
\* is an error status with {error: message}; a 'tools/call' without params
\* and a 'tools/call' for an unregistered tool are answered with an error
\* status and an {error} body as well.
C9_OneResponseErrorsReported ==
  /\ Len(responses) <= 1
  /\ pc = "done" <=> Len(responses) = 1
  /\ pc = "done" =>
       /\ \A i \in 1..Len(thrown) :
            thrown[i].kind = "handler" =>
              /\ Last(responses).status >= 400
              /\ Last(responses).body = ErrorBody(thrown[i].message)
       /\ req.endpoint = "mcp_post" /\ req.method = "tools/call"
            /\ (req.params.kind # "object" \/ ~Registered(variant, req.params.name))
            => /\ Last(responses).status >= 400
               /\ DOMAIN Last(responses).body = {"error"}

\* C9, the part every endpoint keeps: one response per request, and an
\* error thrown by a handler called from a direct route is answered 500
\* with {error: message}.
OneResponsePerRequest ==
  /\ Len(responses) <= 1
  /\ pc = "done" <=> Len(responses) = 1
  /\ pc = "done" /\ req.endpoint \in {"tools_post", "mcp_post", "upload"} =>
       \A i \in 1..Len(thrown) :
         Last(responses) = HttpResponse(500, ErrorBody(thrown[i].message))

TextV(pieces) == [kind |-> "string", pieces |-> pieces]

\* JavaScript truthiness of a URL value (`github_url ?`, `!comp.url`).
HasText(v) == v.kind = "string" /\ v.pieces # <<>>

\* url.replace(/\/$/, ''): the text without one trailing slash.
StripTrailingSlash(pieces) ==
  IF Len(pieces) > 0 /\ pieces[Len(pieces)] = "/"
  THEN SubSeq(pieces, 1, Len(pieces) - 1)
  ELSE pieces

\* A column receives null when the inserted object leaves it undefined.
Column(v) == IF v.kind = "undefined" THEN NullV ELSE v

\* The four rows add_deployment inserts for a new deployment.
NewComponents(id, github_url, frontend_url, mcp_server_url, database_type) ==
  <<[deployment_id |-> id, component_type |-> "github",
     status |-> IF HasText(github_url) THEN "unknown" ELSE "not_configured",
     url |-> Column(github_url), last_checked |-> NullV, error_message |-> NullV],
    [deployment_id |-> id, component_type |-> "frontend",
     status |-> IF HasText(frontend_url) THEN "unknown" ELSE "not_configured",
     url |-> Column(frontend_url), last_checked |-> NullV, error_message |-> NullV],
    [deployment_id |-> id, component_type |-> "mcp_server",
     status |-> IF HasText(mcp_server_url) THEN "unknown" ELSE "not_configured",
     url |-> Column(mcp_server_url), last_checked |-> NullV, error_message |-> NullV],
    [deployment_id |-> id, component_type |-> "database",
     status |-> IF Truthy(database_type) THEN "unknown" ELSE "not_configured",
     url |-> NullV, last_checked |-> NullV, error_message |-> NullV]>>

\* Arguments add_deployment may have been called with.
GithubUrls == {UndefinedV, TextV(<<"https://github.example/acme">>)}
FrontendUrls == {UndefinedV, TextV(<<"https://app.example", "/">>)}
McpServerUrls ==
  {UndefinedV, TextV(<<"https://mcp.example">>), TextV(<<"https://mcp.example", "/">>)}
DatabaseTypes == {UndefinedV, StringV("postgres")}

\* new Date().toISOString() at an earlier check and during this one.
Earlier == StringV("2025-01-01T00:00:00.000Z")
Now == StringV("2025-01-02T00:00:00.000Z")

FetchFailed == "fetch failed"
OperationAborted == "This operation was aborted"

\* The row as an earlier check left it after a probe that failed.
FoundDown(row) ==
  IF HasText(row.url)
  THEN [row EXCEPT !.status = "down", !.last_checked = Earlier,
                   !.error_message = TextV(<<FetchFailed>>)]
  ELSE row

\* Row ids are the positions in the table.
WithIds(rows) == [i \in 1..Len(rows) |-> [id |-> i] @@ rows[i]]

\* The probe is aborted after this many milliseconds without a response.
ProbeTimeoutMs == 10000

\* A success response slower than this many milliseconds is degraded.
DegradedLatencyMs == 5000

\* What the probed server does: answer with a status after some
\* milliseconds, or fail at network level.
ProbeOutcomes ==
  {[kind |-> "response", status |-> 200, ms |-> 200],
   [kind |-> "response", status |-> 200, ms |-> 5000],
   [kind |-> "response", status |-> 200, ms |-> 5001],
   [kind |-> "response", status |-> 503, ms |-> 200],
   [kind |-> "response", status |-> 200, ms |-> 12000],
   [kind |-> "network_error", status |-> 0, ms |-> 0]}

DeploymentIds == {"dep-1", "dep-2", "dep-none"}

StoreError == "store unavailable"

Returned(value) == [kind |-> "returned", value |-> value]
Threw(message) == [kind |-> "threw", message |-> message]

\* results[key] = entry
Put(object, key, entry) == (key :> entry) @@ object

\* The transports serve no request.
TransportIdle ==
  /\ variant = "extended"
  /\ req = NoRequest
  /\ pc = "idle"
  /\ messages = <<>>
  /\ response = NoResponse
  /\ blockIdx = 0
  /\ toolResults = <<>>
  /\ received = <<>>
  /\ completions = <<>>
  /\ invoked = <<>>
  /\ thrown = <<>>
  /\ responses = <<>>

\* Two deployments created by add_deployment; the components of the first
\* are fresh or were found down by an earlier check.
HealthInit ==
  /\ TransportIdle
  /\ SseIdle
  /\ StoreIdle
  /\ HealthIdle
  /\ \E g \in GithubUrls, f \in FrontendUrls, m \in McpServerUrls,
        d \in DatabaseTypes, checkedBefore \in BOOLEAN :
       LET first == NewComponents("dep-1", g, f, m, d)
           second == NewComponents("dep-2", UndefinedV, f, UndefinedV, UndefinedV)
       IN deployment_components =
            WithIds((IF checkedBefore
                     THEN [i \in 1..Len(first) |-> FoundDown(first[i])]
                     ELSE first) \o second)

comp == components[compIdx]

\* The URL the probe is sent to.
checkUrl(row) ==
  IF row.component_type = "mcp_server"
  THEN StripTrailingSlash(row.url.pieces) \o <<"/", "health">>
  ELSE row.url.pieces

\* The handler is called and issues its select.
HealthCall(id) ==
  /\ healthPc = "idle"
  /\ healthPc' = "select"
  /\ deployment_id' = id
  /\ UNCHANGED <<deployment_components, components, compIdx, results, fetched,
                 update, healthResult, storeFailures>>
  /\ UNCHANGED outsideHealth

IsOfDeployment(row) == row.deployment_id = deployment_id

\* The select returns the rows of the deployment.
HealthSelectReturns ==
  /\ healthPc = "select"
  /\ components' = SelectSeq(deployment_components, IsOfDeployment)
  /\ compIdx' = 1
  /\ healthPc' = "loop"
  /\ UNCHANGED <<deployment_components, deployment_id, results, fetched, update,
                 healthResult, storeFailures>>
  /\ UNCHANGED outsideHealth

\* The select fails: `if (error) throw error`.
HealthSelectFails ==
  /\ healthPc = "select"
  /\ storeFailures' = Append(storeFailures, "select")
  /\ healthResult' = Threw(StoreError)
  /\ healthPc' = "threw"
  /\ UNCHANGED <<deployment_components, deployment_id, components, compIdx,
                 results, fetched, update>>
  /\ UNCHANGED outsideHealth

\* A component without URL: an entry is recorded, nothing is sent or stored.
HealthNotConfigured ==
  /\ healthPc = "loop"
  /\ compIdx <= Len(components)
  /\ ~HasText(comp.url)
  /\ results' = Put(results, comp.component_type,
                    [status |-> "not_configured", checked |-> FALSE])
  /\ compIdx' = compIdx + 1
  /\ UNCHANGED <<deployment_components, healthPc, deployment_id, components,
                 fetched, update, healthResult, storeFailures>>
  /\ UNCHANGED outsideHealth

\* The probe of a component with a URL is sent.
HealthFetch ==
  /\ healthPc = "loop"
  /\ compIdx <= Len(components)
  /\ HasText(comp.url)
  /\ fetched' = Append(fetched, checkUrl(comp))
  /\ healthPc' = "fetch"
  /\ UNCHANGED <<deployment_components, deployment_id, components, compIdx,
                 results, update, healthResult, storeFailures>>
  /\ UNCHANGED outsideHealth

\* response.ok: the status is in the range 200-299.
Ok(status) == status >= 200 /\ status <= 299

\* A classification that does not look at the latency.
ClassifyIgnoringLatency(status, latency) ==
  IF Ok(status)
  THEN [status |-> "healthy", error_message |-> NullV]
  ELSE [status |-> "degraded", error_message |-> TextV(<<"HTTP ", status>>)]

\* newStatus and errorMessage for a response.
Classify(status, latency) ==
  IF Ok(status)
  THEN [status |-> IF latency > DegradedLatencyMs THEN "degraded" ELSE "healthy",
        error_message |-> NullV]
  ELSE [status |-> "degraded", error_message |-> TextV(<<"HTTP ", status>>)]

\* The update and the result entry of the try branch.
Probed(status, latency) ==
  [status |-> Classify(status, latency).status,
   error_message |-> Classify(status, latency).error_message,
   entry |-> [status |-> Classify(status, latency).status,
              latency |-> latency, checked |-> TRUE]]

\* The update and the result entry of the catch branch.
Caught(message) ==
  [status |-> "down", error_message |-> TextV(<<message>>),
   entry |-> [status |-> "down", error |-> message, checked |-> TRUE]]

\* A handler in which a probe that fails ends the call.
HealthFetchSettlesOrThrows(outcome) ==
  /\ healthPc = "fetch"
  /\ IF outcome.kind = "response" /\ outcome.ms < ProbeTimeoutMs
     THEN /\ update' = Probed(outcome.status, outcome.ms)
          /\ healthPc' = "update"
          /\ UNCHANGED healthResult
     ELSE /\ healthResult' = Threw(FetchFailed)
          /\ healthPc' = "threw"
          /\ UNCHANGED update
  /\ UNCHANGED <<deployment_components, deployment_id, components, compIdx,
                 results, fetched, storeFailures>>
  /\ UNCHANGED outsideHealth

\* fetch() settles: with the response when it arrives before the abort
\* timer fires, with the abort error otherwise, or with a network error.
HealthFetchSettles(outcome) ==
  /\ healthPc = "fetch"
  /\ update' =
       IF outcome.kind = "network_error" THEN Caught(FetchFailed)
       ELSE IF outcome.ms >= ProbeTimeoutMs THEN Caught(OperationAborted)
       ELSE Probed(outcome.status, outcome.ms)
  /\ healthPc' = "update"
  /\ UNCHANGED <<deployment_components, deployment_id, components, compIdx,
                 results, fetched, healthResult, storeFailures>>
  /\ UNCHANGED outsideHealth

\* The row update `.eq('id', comp.id)` as the store applies it.
UpdatedRows(rows, id, fields) ==
  [i \in 1..Len(rows) |->
     IF rows[i].id = id
     THEN [rows[i] EXCEPT !.status = fields.status, !.last_checked = Now,
                          !.error_message = fields.error_message]
     ELSE rows[i]]

\* The store update settles; its outcome is not looked at, and the result
\* entry is recorded.
HealthUpdateSettles(ok) ==
  /\ healthPc = "update"
  /\ deployment_components' =
       IF ok THEN UpdatedRows(deployment_components, comp.id, update)
       ELSE deployment_components
  /\ storeFailures' = IF ok THEN storeFailures ELSE Append(storeFailures, "update")
  /\ results' = Put(results, comp.component_type, update.entry)
  /\ compIdx' = compIdx + 1
  /\ update' = NoResult
  /\ healthPc' = "loop"
  /\ UNCHANGED <<deployment_id, components, fetched, healthResult>>
  /\ UNCHANGED outsideHealth

\* The loop is over: the handler returns.
HealthReturn ==
  /\ healthPc = "loop"
  /\ compIdx > Len(components)
  /\ healthResult' = Returned([deployment_id |-> deployment_id, health_check |-> results])
  /\ healthPc' = "returned"
  /\ UNCHANGED <<deployment_components, deployment_id, components, compIdx,
                 results, fetched, update, storeFailures>>
  /\ UNCHANGED outsideHealth

HealthNext ==
  \/ \E id \in DeploymentIds : HealthCall(id)
  \/ HealthSelectReturns
  \/ HealthSelectFails
  \/ HealthNotConfigured
  \/ HealthFetch
  \/ \E outcome \in ProbeOutcomes : HealthFetchSettles(outcome)
  \/ \E ok \in BOOLEAN : HealthUpdateSettles(ok)
  \/ HealthReturn

SpecHealth == HealthInit /\ [][HealthNext]_vars

(***************************************************************************)
(* Properties of the health checker                                        *)
(***************************************************************************)

\* The classification of a probe outcome: the status, and the error kept
\* with it.
ExpectedClass(outcome) ==
  IF outcome.kind = "network_error"
    THEN [status |-> "down", error_message |-> TextV(<<FetchFailed>>)]
  ELSE IF outcome.ms >= 10000
    THEN [status |-> "down", error_message |-> TextV(<<OperationAborted>>)]
  ELSE IF outcome.status \notin 200..299
    THEN [status |-> "degraded", error_message |-> TextV(<<"HTTP ", outcome.status>>)]
  ELSE IF outcome.ms > 5000
    THEN [status |-> "degraded", error_message |-> NullV]
  ELSE [status |-> "healthy", error_message |-> NullV]

\* Every step of the handler classifies as stated, given the URL each kind
\* of component is to be probed at.
ClassifiesAndProbes(ProbeUrl(_)) ==
  /\ HealthNotConfigured =>
       /\ fetched' = fetched
       /\ results'[comp.component_type] = [status |-> "not_configured", checked |-> FALSE]
  /\ fetched' # fetched =>
       /\ HasText(comp.url)
       /\ fetched' = Append(fetched, ProbeUrl(comp))
  /\ \A outcome \in ProbeOutcomes :
       HealthFetchSettles(outcome) =>
         /\ update'.status = ExpectedClass(outcome).status
         /\ update'.error_message = ExpectedClass(outcome).error_message
         /\ update'.entry.status = ExpectedClass(outcome).status
         /\ update'.status = "down" => TextV(<<update'.entry.error>>) = update'.error_message
  /\ \A ok \in BOOLEAN :
       HealthUpdateSettles(ok) => results'[comp.component_type] = update.entry

UrlWithHealthAppended(row) ==
  IF row.component_type = "mcp_server"
  THEN row.url.pieces \o <<"/", "health">>
  ELSE row.url.pieces

UrlLessSlashWithHealthAppended(row) ==
  IF row.component_type = "mcp_server"
  THEN StripTrailingSlash(row.url.pieces) \o <<"/", "health">>
  ELSE row.url.pieces

\* C11 as stated: a component without URL is reported not_configured and
\* not probed; a probe that fails at network level or gets no response
\* within 10 s is down with the error's message; a non-success status is
\* degraded with 'HTTP <code>'; a success slower than 5000 ms is degraded and
\* one of at most 5000 ms healthy; the mcp_server component is probed at its
\* URL with '/health' appended and every other component at its raw URL.
C11_ClassifiesEachComponent ==
  [][ClassifiesAndProbes(UrlWithHealthAppended)]_vars

\* C11 amended: the same classification, the mcp_server component being
\* probed at its URL less one trailing slash, if it ends in one, with
\* '/health' appended.
C11_ClassifiesEachComponentSlashStripped ==
  [][ClassifiesAndProbes(UrlLessSlashWithHealthAppended)]_vars

\* A check has returned after a probe that failed, one that answered 503,
\* one that answered in time at a URL stored with a trailing slash, and a
\* component without URL.
C11_Witness ==
  /\ healthPc = "returned"
  /\ deployment_id = "dep-1"
  /\ DOMAIN results = {"github", "frontend", "mcp_server", "database"}
  /\ results["github"].status = "down"
  /\ results["frontend"].status = "degraded"
  /\ results["mcp_server"].status = "healthy"
  /\ results["database"].status = "not_configured"
  /\ components[3].url = TextV(<<"https://mcp.example", "/">>)
  /\ fetched[3] = <<"https://mcp.example", "/", "health">>

\* The rows of the deployment the call asked for, as the table holds them.
RowsAsked == SelectSeq(deployment_components, IsOfDeployment)
TypesAsked == {RowsAsked[i].component_type : i \in 1..Len(RowsAsked)}
Configured(row) == HasText(row.url)

\* C12: no probe outcome ends the call: the call fails only when its select
\* fails, before any component is looked at; when it returns, every
\* component of the deployment with a URL has been probed, the result map
\* has exactly one entry for each component of the deployment, and the
\* deployment id returned is the one asked for.
C12_FailuresIsolatedPerComponent ==
  /\ healthPc = "threw" => compIdx = 0 /\ fetched = <<>>
  /\ healthPc = "returned" =>
       /\ healthResult.value.deployment_id = deployment_id
       /\ healthResult.value.health_check = results
       /\ DOMAIN results = TypesAsked
       /\ Cardinality(DOMAIN results) = Len(RowsAsked)
       /\ Len(fetched) = Len(SelectSeq(RowsAsked, Configured))
       /\ \A i \in 1..Len(RowsAsked) :
            results[RowsAsked[i].component_type].checked = Configured(RowsAsked[i])

\* A check has returned four entries after its first probe timed out and
\* its second was answered 503.
C12_Witness ==
  /\ healthPc = "returned"
  /\ Cardinality(DOMAIN results) = 4
  /\ results["github"] = [status |-> "down", error |-> OperationAborted, checked |-> TRUE]
  /\ results["frontend"].status = "degraded"
  /\ results["mcp_server"] = [status |-> "healthy", latency |-> 200, checked |-> TRUE]

\* The stored row of a component the select returned.
Stored(row) == deployment_components[row.id]

\* The error a result entry stands for: the caught message of a down
\* entry, none for a healthy one, none or 'HTTP <code>' for a degraded one.
ErrorsOf(entry) ==
  IF entry.status = "down" THEN {TextV(<<entry.error>>)}
  ELSE IF entry.status = "healthy" THEN {NullV}
  ELSE {NullV} \cup {TextV(<<"HTTP ", code>>) : code \in {o.status : o \in ProbeOutcomes}}

\* The stored row agrees with the entry reported for it.
RowMatchesEntry(row, entry) ==
  /\ row.status = entry.status
  /\ entry.checked =>
       /\ row.last_checked = Now
       /\ row.error_message \in ErrorsOf(entry)

\* C13: after the check returns, the stored status of every component of
\* the deployment is the one reported in the result map; every probed
\* component has last_checked set by this check and the error of its
\* classification stored, null for a success status.
C13_StoredMatchesReported ==
  healthPc = "returned" =>
    \A i \in 1..Len(components) :
      RowMatchesEntry(Stored(components[i]), results[components[i].component_type])

\* What the code keeps: when none of its updates failed, the stored status
\* of every probed component is the one reported.
StoredMatchesReportedWhenProbedAndStored ==
  healthPc = "returned" /\ storeFailures = <<>> =>
    \A i \in 1..Len(components) :
      results[components[i].component_type].checked =>
        RowMatchesEntry(Stored(components[i]), results[components[i].component_type])

(***************************************************************************)
(* GET /mcp: the event stream and its keep-alive timer                     *)
(***************************************************************************)

\* Longest time followed, in periods of the keep-alive interval.
MaxPeriods == 3

\* The interval of the keep-alive timer, in milliseconds.
KeepAliveMs == 30000

\* JSON.stringify({ type }) framed as one event.
Event(type) == [data |-> Stringify(ObjectV(<<"type", type>>))]

\* How a request comes to emit 'close': the client ends the stream, or the
\* connection breaks.
CloseCauses == {"client_end", "connection_lost"}

\* Any variant serves the route, no other request being served.
SseInit ==
  /\ variant \in Variants
  /\ req = NoRequest
  /\ pc = "idle"
  /\ messages = <<>>
  /\ response = NoResponse
  /\ blockIdx = 0
  /\ toolResults = <<>>
  /\ received = <<>>
  /\ completions = <<>>
  /\ invoked = <<>>
  /\ thrown = <<>>
  /\ responses = <<>>
  /\ deployment_components = <<>>
  /\ HealthIdle
  /\ SseIdle
  /\ StoreIdle

\* The route handler: the 'connected' event is written, the timer set and
\* the 'close' listener registered.
McpGet(c) ==
  /\ connection[c].state = "none"
  /\ connection' = [connection EXCEPT ![c] = [state |-> "open", at |-> 0]]
  /\ stream' = [stream EXCEPT ![c] = <<Event("connected")>>]
  /\ keepAlive' = [keepAlive EXCEPT ![c] = "set"]
  /\ UNCHANGED periods
  /\ UNCHANGED outsideSse

\* One interval goes by for a request; its timer, if still set, fires and
\* writes a keep-alive event.
PeriodElapses(c) ==
  /\ connection[c].state # "none"
  /\ periods[c] < MaxPeriods
  /\ periods' = [periods EXCEPT ![c] = @ + 1]
  /\ stream' = [stream EXCEPT ![c] =
                  IF keepAlive[c] = "set" THEN Append(@, Event("ping")) ELSE @]
  /\ UNCHANGED <<connection, keepAlive>>
  /\ UNCHANGED outsideSse

\* A 'close' listener that leaves the timer set.
ReqCloseKeepsTimer(c, cause) ==
  /\ connection[c].state = "open"
  /\ connection' = [connection EXCEPT ![c] = [state |-> cause, at |-> periods[c]]]
  /\ UNCHANGED <<stream, keepAlive, periods>>
  /\ UNCHANGED outsideSse

\* The request emits 'close': the listener clears the timer.
ReqClose(c, cause) ==
  /\ connection[c].state = "open"
  /\ connection' = [connection EXCEPT ![c] = [state |-> cause, at |-> periods[c]]]
  /\ keepAlive' = [keepAlive EXCEPT ![c] = "cleared"]
  /\ UNCHANGED <<stream, periods>>
  /\ UNCHANGED outsideSse

SseNext ==
  \/ \E c \in Clients : McpGet(c)
  \/ \E c \in Clients : PeriodElapses(c)
  \/ \E c \in Clients, cause \in CloseCauses : ReqClose(c, cause)

SpecSse == SseInit /\ [][SseNext]_vars

Pings(n) == [i \in 1..n |-> Event("ping")]

\* Milliseconds gone by since the request of a client.
ElapsedMs(c) == periods[c] * KeepAliveMs

\* C14: the stream of a request starts with the 'connected' event and goes
\* on with keep-alive events only; while the request is open its timer is
\* set and one keep-alive event has been written for each period elapsed;
\* once the request has closed, for either cause, the timer is cleared and
\* the stream is the one written up to the close, whatever time goes by.
C14_KeepAliveOnlyWhileConnected ==
  \A c \in Clients :
    /\ connection[c].state = "none" => stream[c] = <<>> /\ keepAlive[c] = "none"
    /\ connection[c].state = "open" =>
         /\ keepAlive[c] = "set"
         /\ stream[c] = <<Event("connected")>> \o Pings(ElapsedMs(c) \div 30000)
    /\ connection[c].state \in CloseCauses =>
         /\ keepAlive[c] = "cleared"
         /\ stream[c] = <<Event("connected")>> \o Pings(connection[c].at)

\* One client lost its connection after one keep-alive event and two more
\* periods have gone by since, while another client is still connected and
\* has received three.
C14_Witness ==
  /\ connection["client-1"] = [state |-> "connection_lost", at |-> 1]
  /\ periods["client-1"] = 3
  /\ stream["client-1"] = <<Event("connected"), Event("ping")>>
  /\ connection["client-2"].state = "open"
  /\ Len(stream["client-2"]) = 4

(***************************************************************************)
(* Store-backed handlers: calls that may overlap at their awaits           *)
(***************************************************************************)

\* Largest number of handler calls made in one run.
MaxCalls == 2

\* new Date().toISOString() taken by the t-th call.
TimeV(t) == [kind |-> "time", t |-> t]

\* A row as a select returns it.
RowV(row) == [kind |-> "row", row |-> row]

\* Three companies, as the seed script leaves them: one with milestones
\* 0 and 1, one with a milestone of a larger index, one with none.
SeedCompanies ==
  <<[id |-> "c-acme", slug |-> "acme"],
    [id |-> "c-globex", slug |-> "globex"],
    [id |-> "c-initech", slug |-> "initech"]>>

SeedMilestones ==
  <<[id |-> 1, company_id |-> "c-acme", order_index |-> 0,
     status |-> "done", completed_at |-> NullV],
    [id |-> 2, company_id |-> "c-acme", order_index |-> 1,
     status |-> "pending", completed_at |-> NullV],
    [id |-> 3, company_id |-> "c-globex", order_index |-> 5,
     status |-> "pending", completed_at |-> NullV]>>

\* A task as add_dev_task created it, a document as upload_document stored
\* it with its object in the bucket, and one as add_document recorded it.
SeedDevTasks == <<[id |-> 1, status |-> "todo", completed_at |-> NullV]>>

SeedDocuments ==
  <<[id |-> 1, company_id |-> "c-acme", bucket_path |-> StringV("acme/spec.pdf")],
    [id |-> 2, company_id |-> "c-acme", bucket_path |-> NullV]>>

SeedDb ==
  [EmptyDb EXCEPT !.companies = SeedCompanies, !.milestones = SeedMilestones,
                  !.dev_tasks = SeedDevTasks, !.documents = SeedDocuments,
                  !.storage = {"acme/spec.pdf"}]

\* The handlers that resolve a company by slug first, and the table each
\* of the adding ones inserts into.
BySlug ==
  {"list_milestones", "add_milestone", "add_note", "add_requirement",
   "add_document", "add_contact"}

ChildTable(handler) ==
  CASE handler = "add_milestone" -> "milestones"
    [] handler = "add_note" -> "activity"
    [] handler = "add_requirement" -> "requirements"
    [] handler = "add_document" -> "documents"
    [] handler = "add_contact" -> "contacts"

\* Arguments of a call: a slug, a row id, a status.
Args(slug, id, status) == [slug |-> slug, id |-> id, status |-> status]

\* The first await of each handler.
FirstPc(handler) ==
  CASE handler \in BySlug -> "resolve"
    [] handler \in {"update_milestone", "update_dev_task"} -> "update"
    [] handler = "send_project_update" -> "select_portfolio"
    [] handler = "get_portfolio_summary" -> "select_summary"
    [] handler = "add_deployment" -> "select_existing"
    [] handler = "get_document_content" -> "select_content"
    [] handler = "update_deployment_component" -> "read_config"
    [] handler = "update_requirement" -> "resolve"
    [] handler = "update_company_status" -> "update_company"
    [] handler \in {"get_recent_activity", "list_all_documents"} -> "lookup_company"
    [] handler = "delete_document" -> "select_document"

\* The await that follows the resolution of the company.
AfterResolve(handler) ==
  CASE handler = "add_milestone" -> "read_max"
    [] handler = "list_milestones" -> "select"
    [] handler = "update_requirement" -> "update_requirements"
    [] OTHER -> "insert"

NewCall(handler, args, at) ==
  [handler |-> handler, args |-> args, at |-> at, pc |-> FirstPc(handler),
   company |-> NullV, order_index |-> 0, doc |-> NullV, table |-> <<>>,
   deployment |-> NullV, updates |-> <<>>, fetches |-> <<>>,
   failed |-> <<>>, outcome |-> NoResult]

\* `Company not found: ${slug}`
CompanyNotFound(slug) == TextV(<<"Company not found: ", slug>>)

\* The message of the error a failed store operation returns.
StoreFailure == TextV(<<StoreError>>)

\* A handler is called.
Call(handler, args) ==
  /\ Len(handlerCalls) < MaxCalls
  /\ handlerCalls' = Append(handlerCalls, NewCall(handler, args, Len(handlerCalls) + 1))
  /\ UNCHANGED <<db, mails>>
  /\ UNCHANGED outsideStore

\* A resolution that falls back on the first company when none matches.
SingleCompanyOrFirst(slug) ==
  LET found == SelectSeq(db.companies, LAMBDA r : r.slug = slug)
  IN IF Len(found) = 1 THEN RowV([id |-> found[1].id])
     ELSE RowV([id |-> db.companies[1].id])

\* .from('companies').select('id').eq('slug', slug).single(): data is the
\* row when exactly one matches, null otherwise.
SingleCompany(slug) ==
  LET found == SelectSeq(db.companies, LAMBDA r : r.slug = slug)
  IN IF Len(found) = 1 THEN RowV([id |-> found[1].id]) ELSE NullV

\* The call's log of failed operations after one more operation.
Logged(call, ok, operation) ==
  IF ok THEN call.failed ELSE Append(call.failed, operation)

\* The company lookup settles; only `data` is read: without a company the
\* handler throws 'Company not found'.
ResolveCompany(k, ok) ==
  LET call == handlerCalls[k]
      company == IF ok THEN SingleCompany(call.args.slug) ELSE NullV
  IN /\ call.pc = "resolve"
     /\ handlerCalls' =
          [handlerCalls EXCEPT ![k] =
             IF company = NullV
             THEN [call EXCEPT !.pc = "done",
                               !.failed = Logged(call, ok, "resolve company"),
                               !.outcome = Threw(CompanyNotFound(call.args.slug))]
             ELSE [call EXCEPT !.pc = AfterResolve(call.handler),
                               !.company = company]]
     /\ UNCHANGED <<db, mails>>
     /\ UNCHANGED outsideStore

\* The order_index values of the milestones of a company.
OrderIndexes(rows, company_id) ==
  {rows[i].order_index : i \in {j \in 1..Len(rows) : rows[j].company_id = company_id}}

Max(S) == CHOOSE x \in S : \A y \in S : y <= x

\* existing?.length ? existing[0].order_index + 1 : 0, `existing` being the
\* row of the largest order_index, no row, or null after a failed read.
NextOrderIndex(rows, company_id, ok) ==
  IF ok /\ OrderIndexes(rows, company_id) # {}
  THEN Max(OrderIndexes(rows, company_id)) + 1
  ELSE 0

\* add_milestone: the read of the largest order_index settles; only `data`
\* is read.
ReadMax(k, ok) ==
  LET call == handlerCalls[k]
  IN /\ call.pc = "read_max"
     /\ handlerCalls' =
          [handlerCalls EXCEPT ![k] =
             [call EXCEPT !.pc = "insert",
                          !.failed = Logged(call, ok, "read max order_index"),
                          !.order_index =
                             NextOrderIndex(db.milestones, call.company.row.id, ok)]]
     /\ UNCHANGED <<db, mails>>
     /\ UNCHANGED outsideStore

\* The row an adding handler inserts; unnamed columns take their defaults.
NewRow(call, id) ==
  IF call.handler = "add_milestone"
  THEN [id |-> id, company_id |-> call.company.row.id,
        order_index |-> call.order_index, status |-> "pending",
        completed_at |-> NullV]
  ELSE IF call.handler = "add_document"
  THEN [id |-> id, company_id |-> call.company.row.id, bucket_path |-> NullV]
  ELSE [id |-> id, company_id |-> call.company.row.id]

\* The insert of an adding handler settles: `if (error) throw error`.
InsertRow(k, ok) ==
  LET call == handlerCalls[k]
      table == ChildTable(call.handler)
      row == NewRow(call, Len(db[table]) + 1)
  IN /\ call.pc = "insert"
     /\ db' = IF ok THEN [db EXCEPT ![table] = Append(@, row)] ELSE db
     /\ handlerCalls' =
          [handlerCalls EXCEPT ![k] =
             [call EXCEPT !.pc = "done",
                          !.failed = Logged(call, ok, "insert"),
                          !.outcome = IF ok THEN Returned([success |-> TRUE, row |-> row])
                                      ELSE Threw(StoreFailure)]]
     /\ UNCHANGED mails
     /\ UNCHANGED outsideStore

\* list_milestones: the select of the milestones settles.
SelectMilestones(k, ok) ==
  LET call == handlerCalls[k]
      OfCompany(r) == r.company_id = call.company.row.id
  IN /\ call.pc = "select"
     /\ handlerCalls' =
          [handlerCalls EXCEPT ![k] =
             [call EXCEPT !.pc = "done",
                          !.failed = Logged(call, ok, "select milestones"),
                          !.outcome = IF ok THEN Returned(SelectSeq(db.milestones, OfCompany))
                                      ELSE Threw(StoreFailure)]]
     /\ UNCHANGED <<db, mails>>
     /\ UNCHANGED outsideStore

\* The table an updating handler writes.
UpdatedTable(handler) ==
  IF handler = "update_milestone" THEN "milestones" ELSE "dev_tasks"

\* Whether the update object names the status: update_milestone always
\* lists it, and an undefined value is dropped from the request;
\* update_dev_task lists it `if (status)`.
SetsStatus(call) ==
  IF call.handler = "update_milestone"
  THEN call.args.status.kind = "string"
  ELSE Truthy(call.args.status)

\* An update that nulls completed_at whenever the status is not 'done'.
PatchedClearingCompletedAt(row, call) ==
  [row EXCEPT
     !.status = IF SetsStatus(call) THEN call.args.status.s ELSE @,
     !.completed_at = IF call.args.status = StringV("done") THEN TimeV(call.at) ELSE NullV]

\* The row after the update object is applied: completed_at is listed only
\* for status 'done'.
Patched(row, call) ==
  [row EXCEPT
     !.status = IF SetsStatus(call) THEN call.args.status.s ELSE @,
     !.completed_at = IF call.args.status = StringV("done") THEN TimeV(call.at) ELSE @]

HasRow(rows, id) == \E i \in 1..Len(rows) : rows[i].id = id

\* update_milestone and update_dev_task: the update settles.  A failed
\* update throws; update_dev_task asks for .single() and so also throws
\* when no row has the id.
UpdateRow(k, ok) ==
  LET call == handlerCalls[k]
      table == UpdatedTable(call.handler)
      rows == db[table]
      found == HasRow(rows, call.args.id)
      succeeds == ok /\ (call.handler = "update_dev_task" => found)
  IN /\ call.pc = "update"
     /\ db' = IF ok
              THEN [db EXCEPT ![table] =
                      [i \in 1..Len(rows) |->
                         IF rows[i].id = call.args.id THEN Patched(rows[i], call)
                         ELSE rows[i]]]
              ELSE db
     /\ handlerCalls' =
          [handlerCalls EXCEPT ![k] =
             [call EXCEPT !.pc = "done",
                          !.failed = Logged(call, ok, "update"),
                          !.outcome = IF succeeds THEN Returned([success |-> TRUE, found |-> found])
                                      ELSE Threw(StoreFailure)]]
     /\ UNCHANGED mails
     /\ UNCHANGED outsideStore

(***************************************************************************)
(* Number arithmetic of the progress computation: IEEE 754 doubles         *)
(***************************************************************************)

RECURSIVE Power2(_)
Power2(n) == IF n = 0 THEN 1 ELSE 2 * Power2(n - 1)

\* A significand has 53 bits: one bit and four limbs of 13 bits.
LimbBase == Power2(13)

\* A positive Number is [limbs, e]: the limbs of its significand, most
\* significant first, read in base LimbBase and divided by 2^(52 + e). Zero
\* has no limbs.
ZeroNumber == [limbs |-> <<>>, e |-> 0]

Front(s) == SubSeq(s, 1, Len(s) - 1)

RECURSIVE Carried(_)
\* The limbs with every carry moved up; the first limb takes the last one.
Carried(limbs) ==
  IF Len(limbs) = 1 THEN limbs
  ELSE LET low == Last(limbs)
           higher == [Front(limbs) EXCEPT ![Len(limbs) - 1] = @ + low \div LimbBase]
       IN Append(Carried(higher), low % LimbBase)

RECURSIVE BitLength(_)
BitLength(n) == IF n = 0 THEN 0 ELSE 1 + BitLength(n \div 2)

\* The limbs rounded to a multiple of 2^dropped, to the nearest and on a
\* tie to the even one; `more` tells that digits beyond the limbs are set.
Rounded(limbs, dropped, more) ==
  LET unit == Power2(dropped)
      low == Last(limbs)
      tail == low % unit
      kept == low - tail
      odd == (kept \div unit) % 2 = 1
      up == IF dropped = 0 THEN more = "above half" \/ (more = "half" /\ odd)
            ELSE 2 * tail > unit \/ (2 * tail = unit /\ odd)
  IN Carried([limbs EXCEPT ![Len(limbs)] = kept + (IF up THEN unit ELSE 0)])

RECURSIVE Doublings(_, _)
\* How often d is doubled to reach t.
Doublings(d, t) == IF d >= t THEN 0 ELSE 1 + Doublings(2 * d, t)

RECURSIVE QuotientLimbs(_, _, _)
\* The next n limbs of the expansion of r / t, r < t.
QuotientLimbs(r, t, n) ==
  IF n = 0 THEN <<>>
  ELSE <<(r * LimbBase) \div t>> \o QuotientLimbs((r * LimbBase) % t, t, n - 1)

RECURSIVE Remainder(_, _, _)
\* What is left of r / t after those n limbs.
Remainder(r, t, n) ==
  IF n = 0 THEN r ELSE Remainder((r * LimbBase) % t, t, n - 1)

\* done / total, 0 <= done <= total, 0 < total: the quotient rounded to a
\* Number.
Divide(d, t) ==
  IF d = 0 THEN ZeroNumber
  ELSE LET e == Doublings(d, t)
           r == d * Power2(e) - t
           rest == Remainder(r, t, 4)
           more == IF 2 * rest > t THEN "above half"
                   ELSE IF 2 * rest = t THEN "half" ELSE "below half"
       IN [limbs |-> Rounded(<<1>> \o QuotientLimbs(r, t, 4), 0, more),
           e |-> e]

\* x * 100: the product rounded to a Number, the bits the first limb has
\* gained being dropped from the last.
Times100(x) ==
  IF x = ZeroNumber THEN ZeroNumber
  ELSE LET product == Carried([i \in 1..Len(x.limbs) |-> 100 * x.limbs[i]])
       IN [limbs |-> Rounded(product, BitLength(product[1]) - 1, "none"),
           e |-> x.e]

\* Math.round(x), x >= 0: the integer part, plus one when the fraction is
\* a half or more.
MathRound(x) ==
  IF x = ZeroNumber THEN 0
  ELSE LET top == x.limbs[1]
       IN IF x.e = 0
          THEN top + (IF 2 * x.limbs[2] >= LimbBase THEN 1 ELSE 0)
          ELSE top \div Power2(x.e)
                 + (IF 2 * (top % Power2(x.e)) >= Power2(x.e) THEN 1 ELSE 0)

\* total ? Math.round((done / total) * 100) : 0
Progress(done, total) ==
  IF total # 0 THEN MathRound(Times100(Divide(done, total))) ELSE 0

\* c.milestones of the embedded select, and those with status 'done'.
MilestonesOf(c) == SelectSeq(db.milestones, LAMBDA m : m.company_id = c.id)
DoneOf(c) == SelectSeq(MilestonesOf(c), LAMBDA m : m.status = "done")

\* The entry get_portfolio_summary returns for a company.
SummaryEntry(c) ==
  [slug |-> c.slug,
   progress |-> Progress(Len(DoneOf(c)), Len(MilestonesOf(c))),
   milestones |-> [done |-> Len(DoneOf(c)), total |-> Len(MilestonesOf(c))]]

\* The row of the summary table send_project_update renders for a company.
TableRow(c) ==
  [slug |-> c.slug,
   done |-> Len(DoneOf(c)), total |-> Len(MilestonesOf(c)),
   progress |-> Progress(Len(DoneOf(c)), Len(MilestonesOf(c)))]

\* get_portfolio_summary: the select settles: `if (error) throw error`,
\* then one entry for each company.
SelectSummary(k, ok) ==
  LET call == handlerCalls[k]
  IN /\ call.pc = "select_summary"
     /\ handlerCalls' =
          [handlerCalls EXCEPT ![k] =
             [call EXCEPT !.pc = "done",
                          !.failed = Logged(call, ok, "select summary"),
                          !.outcome =
                            IF ok
                            THEN Returned([i \in 1..Len(db.companies) |->
                                             SummaryEntry(db.companies[i])])
                            ELSE Threw(StoreFailure)]]
     /\ UNCHANGED <<db, mails>>
     /\ UNCHANGED outsideStore

\* The message of the error a failed mail transport throws.
MailFailure == TextV(<<"Invalid login">>)

\* The arguments of send_project_update: the recipient and include_details.
MailArgs(to, include_details) ==
  [slug |-> "", id |-> 0, status |-> UndefinedV,
   to |-> to, include_details |-> include_details]

\* The error thrown when GMAIL_USER or GMAIL_APP_PASSWORD is not set.
EmailNotConfigured ==
  TextV(<<"Email not configured. Set GMAIL_USER and GMAIL_APP_PASSWORD environment variables.">>)

\* send_project_update is called: without the mail credentials in the
\* environment it throws before any await.
SendProjectUpdate(to, include_details, configured) ==
  LET call == NewCall("send_project_update", MailArgs(to, include_details),
                      Len(handlerCalls) + 1)
  IN /\ Len(handlerCalls) < MaxCalls
     /\ handlerCalls' =
          Append(handlerCalls,
                 IF configured THEN call
                 ELSE [call EXCEPT !.pc = "done", !.outcome = Threw(EmailNotConfigured)])
     /\ UNCHANGED <<db, mails>>
     /\ UNCHANGED outsideStore

\* `Sent portfolio update to ${to}` and `Portfolio update sent to ${to}`
SentPortfolioUpdateTo(to) == TextV(<<"Sent portfolio update to ", to>>)
PortfolioUpdateSentTo(to) == TextV(<<"Portfolio update sent to ", to>>)

\* send_project_update: the select of the portfolio settles:
\* `if (error) throw error`.
SelectPortfolio(k, ok) ==
  LET call == handlerCalls[k]
  IN /\ call.pc = "select_portfolio"
     /\ handlerCalls' =
          [handlerCalls EXCEPT ![k] =
             IF ok THEN [call EXCEPT !.pc = "send_mail",
                                     !.table = [i \in 1..Len(db.companies) |->
                                                  TableRow(db.companies[i])]]
             ELSE [call EXCEPT !.pc = "done",
                               !.failed = Logged(call, ok, "select portfolio"),
                               !.outcome = Threw(StoreFailure)]]
     /\ UNCHANGED <<db, mails>>
     /\ UNCHANGED outsideStore

\* send_project_update: transporter.sendMail settles; a rejection ends the
\* call.
SendMail(k, ok) ==
  LET call == handlerCalls[k]
  IN /\ call.pc = "send_mail"
     /\ mails' = IF ok
               THEN Append(mails, [subject |-> "portfolio update", by |-> k,
                                   to |-> call.args.to, table |-> call.table,
                                   details |-> call.args.include_details])
               ELSE mails
     /\ handlerCalls' =
          [handlerCalls EXCEPT ![k] =
             IF ok THEN [call EXCEPT !.pc = "insert_activity"]
             ELSE [call EXCEPT !.pc = "done",
                               !.failed = Logged(call, ok, "send mail"),
                               !.outcome = Threw(MailFailure)]]
     /\ UNCHANGED db
     /\ UNCHANGED outsideStore

\* send_project_update: the insert of the 'email' activity row settles; its
\* outcome is not looked at and the call returns success.
InsertEmailActivity(k, ok) ==
  LET call == handlerCalls[k]
      row == [id |-> Len(db.activity) + 1, company_id |-> NullV, type |-> "email",
              content |-> SentPortfolioUpdateTo(call.args.to)]
  IN /\ call.pc = "insert_activity"
     /\ db' = IF ok THEN [db EXCEPT !.activity = Append(@, row)] ELSE db
     /\ handlerCalls' =
          [handlerCalls EXCEPT ![k] =
             [call EXCEPT !.pc = "done",
                          !.failed = Logged(call, ok, "insert activity"),
                          !.outcome = Returned([success |-> TRUE,
                                                message |-> PortfolioUpdateSentTo(call.args.to)])]]
     /\ UNCHANGED mails
     /\ UNCHANGED outsideStore

\* .from('documents').select('bucket_path').eq('id', document_id).single()
SingleDocument(id) ==
  LET found == SelectSeq(db.documents, LAMBDA r : r.id = id)
  IN IF Len(found) = 1 THEN RowV([bucket_path |-> found[1].bucket_path]) ELSE NullV

\* doc?.bucket_path
HasBucketPath(doc) == doc.kind = "row" /\ Truthy(doc.row.bucket_path)

\* delete_document: the select of the document settles; only `data` is
\* read.
SelectDocument(k, ok) ==
  LET call == handlerCalls[k]
      doc == IF ok THEN SingleDocument(call.args.id) ELSE NullV
  IN /\ call.pc = "select_document"
     /\ handlerCalls' =
          [handlerCalls EXCEPT ![k] =
             [call EXCEPT !.pc = IF HasBucketPath(doc) THEN "remove_object" ELSE "delete_row",
                          !.failed = Logged(call, ok, "select document"),
                          !.doc = doc]]
     /\ UNCHANGED <<db, mails>>
     /\ UNCHANGED outsideStore

\* delete_document: the removal of the stored object settles; its outcome
\* is not looked at.
RemoveObject(k, ok) ==
  LET call == handlerCalls[k]
  IN /\ call.pc = "remove_object"
     /\ db' = IF ok THEN [db EXCEPT !.storage = @ \ {call.doc.row.bucket_path.s}] ELSE db
     /\ handlerCalls' =
          [handlerCalls EXCEPT ![k] =
             [call EXCEPT !.pc = "delete_row",
                          !.failed = Logged(call, ok, "remove object")]]
     /\ UNCHANGED mails
     /\ UNCHANGED outsideStore

\* delete_document: the delete of the row settles: `if (error) throw error`.
DeleteDocumentRow(k, ok) ==
  LET call == handlerCalls[k]
      Kept(r) == r.id # call.args.id
  IN /\ call.pc = "delete_row"
     /\ db' = IF ok THEN [db EXCEPT !.documents = SelectSeq(@, Kept)] ELSE db
     /\ handlerCalls' =
          [handlerCalls EXCEPT ![k] =
             [call EXCEPT !.pc = "done",
                          !.failed = Logged(call, ok, "delete document"),
                          !.outcome = IF ok THEN Returned([success |-> TRUE, deleted |-> call.args.id])
                                      ELSE Threw(StoreFailure)]]
     /\ UNCHANGED mails
     /\ UNCHANGED outsideStore

\* The store holds the seed data; nothing else runs.
StoreInit ==
  /\ TransportIdle
  /\ deployment_components = <<>>
  /\ HealthIdle
  /\ SseIdle
  /\ db = SeedDb
  /\ handlerCalls = <<>>
  /\ mails = <<>>

\* add_milestone calls on the companies, overlapping at will.
MilestoneSlugs == {"acme", "initech"}

MilestonesNext ==
  \/ \E slug \in MilestoneSlugs : Call("add_milestone", Args(slug, 0, UndefinedV))
  \/ \E k \in DOMAIN handlerCalls, ok \in BOOLEAN : ResolveCompany(k, ok)
  \/ \E k \in DOMAIN handlerCalls, ok \in BOOLEAN : ReadMax(k, ok)
  \/ \E k \in DOMAIN handlerCalls, ok \in BOOLEAN : InsertRow(k, ok)

SpecMilestones == StoreInit /\ [][MilestonesNext]_vars

\* update_milestone and update_dev_task calls on a row that exists and on
\* an id no row has.
StatusInputs == {UndefinedV, StringV("done"), StringV("blocked")}
MilestoneIds == {2, 9}
TaskIds == {1, 9}

UpdatesNext ==
  \/ \E id \in MilestoneIds, status \in StatusInputs :
       Call("update_milestone", Args("", id, status))
  \/ \E id \in TaskIds, status \in StatusInputs \cup {StringV("")} :
       Call("update_dev_task", Args("", id, status))
  \/ \E k \in DOMAIN handlerCalls, ok \in BOOLEAN : UpdateRow(k, ok)

SpecUpdates == StoreInit /\ [][UpdatesNext]_vars

\* The adding handlers called with the slug of a company and with a slug
\* no company has.
Adding == {"add_milestone", "add_note", "add_requirement", "add_document", "add_contact"}
SlugInputs == {"acme", "no-such-company"}

ChildrenNext ==
  \/ \E handler \in Adding, slug \in SlugInputs : Call(handler, Args(slug, 0, UndefinedV))
  \/ \E k \in DOMAIN handlerCalls, ok \in BOOLEAN : ResolveCompany(k, ok)
  \/ \E k \in DOMAIN handlerCalls, ok \in BOOLEAN : ReadMax(k, ok)
  \/ \E k \in DOMAIN handlerCalls, ok \in BOOLEAN : InsertRow(k, ok)

SpecChildren == StoreInit /\ [][ChildrenNext]_vars

\* Handlers whose store and mail operations may fail.
LookupCalls ==
  {<<"list_milestones", "acme">>, <<"list_milestones", "no-such-company">>,
   <<"add_requirement", "acme">>, <<"add_requirement", "no-such-company">>,
   <<"add_milestone", "acme">>}
DocumentIds == {1, 2}

UpstreamNext ==
  \/ \E c \in LookupCalls : Call(c[1], Args(c[2], 0, UndefinedV))
  \/ \E include_details \in BOOLEAN, configured \in BOOLEAN :
       SendProjectUpdate("ops@example.com", include_details, configured)
  \/ \E id \in DocumentIds : Call("delete_document", Args("", id, UndefinedV))
  \/ \E k \in DOMAIN handlerCalls, ok \in BOOLEAN : ResolveCompany(k, ok)
  \/ \E k \in DOMAIN handlerCalls, ok \in BOOLEAN : ReadMax(k, ok)
  \/ \E k \in DOMAIN handlerCalls, ok \in BOOLEAN : InsertRow(k, ok)
  \/ \E k \in DOMAIN handlerCalls, ok \in BOOLEAN : SelectMilestones(k, ok)
  \/ \E k \in DOMAIN handlerCalls, ok \in BOOLEAN : SelectPortfolio(k, ok)
  \/ \E k \in DOMAIN handlerCalls, ok \in BOOLEAN : SendMail(k, ok)
  \/ \E k \in DOMAIN handlerCalls, ok \in BOOLEAN : InsertEmailActivity(k, ok)
  \/ \E k \in DOMAIN handlerCalls, ok \in BOOLEAN : SelectDocument(k, ok)
  \/ \E k \in DOMAIN handlerCalls, ok \in BOOLEAN : RemoveObject(k, ok)
  \/ \E k \in DOMAIN handlerCalls, ok \in BOOLEAN : DeleteDocumentRow(k, ok)

SpecUpstream == StoreInit /\ [][UpstreamNext]_vars

(***************************************************************************)
(* Deployments: add_deployment                                             *)
(***************************************************************************)

\* The variables the deployment handlers leave alone.
outsideDeployments ==
  <<transportVars, sseVars, healthPc, deployment_id, components, compIdx,
    results, fetched, update, healthResult, storeFailures, mails>>

\* A name is the sequence of its characters.
UpperCase ==
  <<"A", "B", "C", "D", "E", "F", "G", "H", "I", "J", "K", "L", "M",
    "N", "O", "P", "Q", "R", "S", "T", "U", "V", "W", "X", "Y", "Z">>
LowerCase ==
  <<"a", "b", "c", "d", "e", "f", "g", "h", "i", "j", "k", "l", "m",
    "n", "o", "p", "q", "r", "s", "t", "u", "v", "w", "x", "y", "z">>
Digits == <<"0", "1", "2", "3", "4", "5", "6", "7", "8", "9">>

Range(seq) == {seq[i] : i \in 1..Len(seq)}

\* name.toLowerCase(), one character at a time.
ToLowerCase(name) ==
  [i \in 1..Len(name) |->
     IF name[i] \in Range(UpperCase)
     THEN LowerCase[CHOOSE j \in 1..Len(UpperCase) : UpperCase[j] = name[i]]
     ELSE name[i]]

\* The class [a-z0-9].
IsSlugCharacter(ch) == ch \in Range(LowerCase) \cup Range(Digits)

\* .replace(/[^a-z0-9]+/g, '-'): each run of other characters becomes one
\* hyphen.
HyphenateRuns(text) ==
  LET marked ==
        [i \in 1..Len(text) |->
           IF IsSlugCharacter(text[i]) THEN text[i]
           ELSE IF i > 1 /\ ~IsSlugCharacter(text[i - 1]) THEN "" ELSE "-"]
  IN SelectSeq(marked, LAMBDA ch : ch # "")

\* .replace(/^-|-$/g, ''): a hyphen at the start and one at the end go.
TrimHyphens(text) ==
  LET rest == IF text # <<>> /\ Head(text) = "-" THEN Tail(text) ELSE text
  IN IF rest # <<>> /\ Last(rest) = "-" THEN Front(rest) ELSE rest

\* The slug add_deployment derives from a name.
Slug(name) == TrimHyphens(HyphenateRuns(ToLowerCase(name)))

\* `Deployment with slug "${slug}" already exists`
AlreadyExists(slug) ==
  TextV(<<"Deployment with slug \"">> \o slug \o <<"\" already exists">>)

\* database_type || null
OrNull(v) == IF Truthy(v) THEN v ELSE NullV

\* The config column of the four rows add_deployment inserts.
NewConfigs(github_url, database_type, database_provider) ==
  <<IF HasText(github_url)
    THEN ObjectV([repo_url |-> github_url, branch |-> StringV("main")])
    ELSE EmptyObject,
    EmptyObject,
    EmptyObject,
    ObjectV([type |-> OrNull(database_type), provider |-> OrNull(database_provider)])>>

\* The rows with their config and the ids the table gives them.
ComponentRows(id, args) ==
  LET rows == NewComponents(id, args.github_url, args.frontend_url,
                            args.mcp_server_url, args.database_type)
      configs == NewConfigs(args.github_url, args.database_type, args.database_provider)
  IN [i \in 1..Len(rows) |->
        [id |-> Len(deployment_components) + i, config |-> configs[i]] @@ rows[i]]

\* .from('deployments').select('id').eq('slug', slug).single(): data is the
\* row when exactly one matches, null otherwise.
SingleDeployment(slug) ==
  LET found == SelectSeq(db.deployments, LAMBDA r : r.slug = slug)
  IN IF Len(found) = 1 THEN RowV([id |-> found[1].id]) ELSE NullV

\* add_deployment: the lookup of the slug settles; only `data` is read, and
\* a row ends the call with the collision error.
SelectExisting(k, ok) ==
  LET call == handlerCalls[k]
      slug == Slug(call.args.name)
      existing == IF ok THEN SingleDeployment(slug) ELSE NullV
  IN /\ call.pc = "select_existing"
     /\ handlerCalls' =
          [handlerCalls EXCEPT ![k] =
             IF existing # NullV
             THEN [call EXCEPT !.pc = "done", !.outcome = Threw(AlreadyExists(slug))]
             ELSE [call EXCEPT !.pc = "insert_deployment",
                               !.failed = Logged(call, ok, "select existing")]]
     /\ UNCHANGED <<db, deployment_components>>
     /\ UNCHANGED outsideDeployments

\* add_deployment: the insert of the deployment settles:
\* `if (error) throw error`.
InsertDeployment(k, ok) ==
  LET call == handlerCalls[k]
      row == [id |-> Len(db.deployments) + 1, name |-> call.args.name,
              slug |-> Slug(call.args.name), status |-> "active"]
  IN /\ call.pc = "insert_deployment"
     /\ db' = IF ok THEN [db EXCEPT !.deployments = Append(@, row)] ELSE db
     /\ handlerCalls' =
          [handlerCalls EXCEPT ![k] =
             IF ok THEN [call EXCEPT !.pc = "insert_components", !.deployment = RowV(row)]
             ELSE [call EXCEPT !.pc = "done",
                               !.failed = Logged(call, ok, "insert deployment"),
                               !.outcome = Threw(StoreFailure)]]
     /\ UNCHANGED deployment_components
     /\ UNCHANGED outsideDeployments

\* add_deployment: the insert of the four components settles:
\* `if (compError) throw compError`; the deployment row stays.
InsertComponents(k, ok) ==
  LET call == handlerCalls[k]
  IN /\ call.pc = "insert_components"
     /\ deployment_components' =
          IF ok THEN deployment_components \o ComponentRows(call.deployment.row.id, call.args)
          ELSE deployment_components
     /\ handlerCalls' =
          [handlerCalls EXCEPT ![k] =
             IF ok THEN [call EXCEPT !.pc = "select_deployment"]
             ELSE [call EXCEPT !.pc = "done",
                               !.failed = Logged(call, ok, "insert components"),
                               !.outcome = Threw(StoreFailure)]]
     /\ UNCHANGED db
     /\ UNCHANGED outsideDeployments

\* The error of .single() when no row matches.
NoSingleRow == TextV(<<"JSON object requested, multiple (or no) rows returned">>)

\* get_deployment({deployment_id}): the select of the deployment settles:
\* `if (error) throw error`, and .single() has an error unless one row
\* matches.
SelectDeployment(k, ok) ==
  LET call == handlerCalls[k]
      found == SelectSeq(db.deployments, LAMBDA r : r.id = call.deployment.row.id)
  IN /\ call.pc = "select_deployment"
     /\ handlerCalls' =
          [handlerCalls EXCEPT ![k] =
             IF ok /\ Len(found) = 1
             THEN [call EXCEPT !.pc = "select_components", !.deployment = RowV(found[1])]
             ELSE [call EXCEPT !.pc = "done",
                               !.failed = Logged(call, ok, "select deployment"),
                               !.outcome = Threw(IF ok THEN NoSingleRow ELSE StoreFailure)]]
     /\ UNCHANGED <<db, deployment_components>>
     /\ UNCHANGED outsideDeployments

\* result[comp.component_type] = {status, url, last_checked,
\* error_message, ...comp.config}
ComponentView(row) ==
  [status |-> row.status, url |-> row.url, last_checked |-> row.last_checked,
   error_message |-> row.error_message, config |-> row.config]

\* get_deployment: the select of the components settles:
\* `if (compError) throw compError`; the result carries one entry for each
\* component type found.
SelectComponents(k, ok) ==
  LET call == handlerCalls[k]
      found == SelectSeq(deployment_components,
                         LAMBDA r : r.deployment_id = call.deployment.row.id)
      result == [deployment |-> call.deployment.row,
                 components |->
                   [type \in {found[i].component_type : i \in 1..Len(found)} |->
                      ComponentView(
                        Last(SelectSeq(found, LAMBDA r : r.component_type = type)))]]
  IN /\ call.pc = "select_components"
     /\ handlerCalls' =
          [handlerCalls EXCEPT ![k] =
             [call EXCEPT !.pc = "done",
                          !.failed = Logged(call, ok, "select components"),
                          !.outcome = IF ok THEN Returned(result) ELSE Threw(StoreFailure)]]
     /\ UNCHANGED <<db, deployment_components>>
     /\ UNCHANGED outsideDeployments

\* add_deployment is called.
AddDeployment(args) ==
  /\ Len(handlerCalls) < MaxCalls
  /\ handlerCalls' =
       Append(handlerCalls, NewCall("add_deployment", args, Len(handlerCalls) + 1))
  /\ UNCHANGED <<db, deployment_components>>
  /\ UNCHANGED outsideDeployments

\* The names add_deployment is called with: two that differ in case and
\* punctuation only, and two that differ in their separators only.
DeploymentNames ==
  {<<"B", "o", "x", "1">>, <<"b", "o", "x", "1", "!">>,
   <<"M", "y", " ", "b", "o", "x">>, <<"-", "m", "y", "_", "-", "b", "o", "x">>}

DeploymentArgs ==
  {[name |-> name, github_url |-> g, frontend_url |-> UndefinedV,
    mcp_server_url |-> UndefinedV, database_type |-> d,
    database_provider |-> UndefinedV] :
     name \in DeploymentNames, g \in GithubUrls, d \in DatabaseTypes}

\* The store holds one deployment with its components.
SeedDeployments ==
  <<[id |-> 1, name |-> <<"b", "o", "x", "1">>, slug |-> <<"b", "o", "x", "1">>,
     status |-> "active"]>>

DeploymentsInit ==
  /\ TransportIdle
  /\ SseIdle
  /\ HealthIdle
  /\ db = [EmptyDb EXCEPT !.deployments = SeedDeployments]
  /\ deployment_components =
       LET rows == NewComponents(1, UndefinedV, UndefinedV, UndefinedV, UndefinedV)
           configs == NewConfigs(UndefinedV, UndefinedV, UndefinedV)
       IN [i \in 1..Len(rows) |-> [id |-> i, config |-> configs[i]] @@ rows[i]]
  /\ handlerCalls = <<>>
  /\ mails = <<>>

DeploymentsNext ==
  \/ \E args \in DeploymentArgs : AddDeployment(args)
  \/ \E k \in DOMAIN handlerCalls, ok \in BOOLEAN : SelectExisting(k, ok)
  \/ \E k \in DOMAIN handlerCalls, ok \in BOOLEAN : InsertDeployment(k, ok)
  \/ \E k \in DOMAIN handlerCalls, ok \in BOOLEAN : InsertComponents(k, ok)
  \/ \E k \in DOMAIN handlerCalls, ok \in BOOLEAN : SelectDeployment(k, ok)
  \/ \E k \in DOMAIN handlerCalls, ok \in BOOLEAN : SelectComponents(k, ok)

SpecDeployments == DeploymentsInit /\ [][DeploymentsNext]_vars

(***************************************************************************)
(* Deployments: update_deployment_component                                *)
(***************************************************************************)

\* { ...a, ...b }: the keys of both, those of b with the values of b.
Spread(a, b) ==
  [key \in DOMAIN a \cup DOMAIN b |-> IF key \in DOMAIN b THEN b[key] ELSE a[key]]

\* { ...(existing?.config || {}), ...config }
MergedConfig(existing, config) ==
  ObjectV(Spread(IF existing # NullV /\ Truthy(existing.row.config)
                 THEN existing.row.config.fields ELSE <<>>,
                 config.fields))

\* The rows of a component of a deployment.
IsComponent(row, args) ==
  row.deployment_id = args.deployment_id /\ row.component_type = args.component

\* update_deployment_component is called: with a config it reads the
\* stored one first.
UpdateDeploymentComponent(args) ==
  LET call == NewCall("update_deployment_component", args, Len(handlerCalls) + 1)
      updates == [updated_at |-> TimeV(call.at)]
                   @@ (IF Truthy(args.status) THEN [status |-> args.status.s] ELSE <<>>)
                   @@ (IF args.url # UndefinedV THEN [url |-> args.url] ELSE <<>>)
  IN /\ Len(handlerCalls) < MaxCalls
     /\ handlerCalls' =
          Append(handlerCalls,
                 [call EXCEPT !.updates = updates,
                              !.pc = IF Truthy(args.config) THEN "read_config"
                                     ELSE "update_component"])
     /\ UNCHANGED <<db, deployment_components>>
     /\ UNCHANGED outsideDeployments

\* update_deployment_component: the read of the stored config settles;
\* only `data` is read.
ReadConfig(k, ok) ==
  LET call == handlerCalls[k]
      found == SelectSeq(deployment_components, LAMBDA r : IsComponent(r, call.args))
      existing == IF ok /\ Len(found) = 1 THEN RowV([config |-> found[1].config]) ELSE NullV
  IN /\ call.pc = "read_config"
     /\ handlerCalls' =
          [handlerCalls EXCEPT ![k] =
             [call EXCEPT !.pc = "update_component",
                          !.failed = Logged(call, ok, "read config"),
                          !.updates = [config |-> MergedConfig(existing, call.args.config)] @@ @]]
     /\ UNCHANGED <<db, deployment_components>>
     /\ UNCHANGED outsideDeployments

\* update_deployment_component: the update settles: `if (error) throw
\* error`, and .single() has an error unless one row was updated.
UpdateComponent(k, ok) ==
  LET call == handlerCalls[k]
      found == SelectSeq(deployment_components, LAMBDA r : IsComponent(r, call.args))
      Updated(row) == IF IsComponent(row, call.args) THEN Spread(row, call.updates) ELSE row
  IN /\ call.pc = "update_component"
     /\ deployment_components' =
          IF ok THEN [i \in 1..Len(deployment_components) |-> Updated(deployment_components[i])]
          ELSE deployment_components
     /\ handlerCalls' =
          [handlerCalls EXCEPT ![k] =
             [call EXCEPT !.pc = "done",
                          !.failed = Logged(call, ok, "update component"),
                          !.outcome =
                            IF ~ok THEN Threw(StoreFailure)
                            ELSE IF Len(found) # 1 THEN Threw(NoSingleRow)
                            ELSE Returned([success |-> TRUE,
                                           component |-> Updated(found[1])])]]
     /\ UNCHANGED db
     /\ UNCHANGED outsideDeployments

\* A deployment created with a repository: its github component has a
\* config of two keys.
ComponentsInit ==
  /\ TransportIdle
  /\ SseIdle
  /\ HealthIdle
  /\ db = [EmptyDb EXCEPT !.deployments = SeedDeployments]
  /\ deployment_components =
       LET url == TextV(<<"https://github.example/acme">>)
           rows == NewComponents(1, url, UndefinedV, UndefinedV, UndefinedV)
           configs == NewConfigs(url, UndefinedV, UndefinedV)
       IN [i \in 1..Len(rows) |-> [id |-> i, config |-> configs[i]] @@ rows[i]]
  /\ handlerCalls = <<>>
  /\ mails = <<>>

\* Configs with one key each, a config that overwrites a stored key, and
\* none.
ConfigInputs ==
  {UndefinedV, ObjectV([token |-> StringV("t-1")]), ObjectV([owner |-> StringV("ops")]),
   ObjectV([branch |-> StringV("dev")])}

ComponentArgs ==
  {[deployment_id |-> 1, component |-> component, status |-> status,
    url |-> UndefinedV, config |-> config] :
     component \in {"github", "no-such-component"},
     status \in {UndefinedV, StringV("healthy")},
     config \in ConfigInputs}

ComponentsNext ==
  \/ \E args \in ComponentArgs : UpdateDeploymentComponent(args)
  \/ \E k \in DOMAIN handlerCalls, ok \in BOOLEAN : ReadConfig(k, ok)
  \/ \E k \in DOMAIN handlerCalls, ok \in BOOLEAN : UpdateComponent(k, ok)

SpecComponents == ComponentsInit /\ [][ComponentsNext]_vars

(***************************************************************************)
(* Documents: get_document_content                                         *)
(***************************************************************************)

\* A fetched text is a sequence of runs, each a character repeated n times.
Run(ch, n) == [ch |-> ch, n |-> n]

RECURSIVE TextLength(_)
\* content.length
TextLength(text) ==
  IF text = <<>> THEN 0 ELSE Head(text).n + TextLength(Tail(text))

RECURSIVE Substring(_, _)
\* content.substring(0, n)
Substring(text, n) ==
  IF n = 0 \/ text = <<>> THEN <<>>
  ELSE IF Head(text).n <= n
       THEN <<Head(text)>> \o Substring(Tail(text), n - Head(text).n)
       ELSE <<Run(Head(text).ch, n)>>

\* The content is cut at this many characters.
TruncateAt == 50000

\* '\n\n... [truncated]'
TruncationMarker == <<Run("\n\n... [truncated]", 1)>>

\* A text of exactly the limit counts as truncated.
IsTruncatedAtLimit(content) == TextLength(content) >= TruncateAt

\* content.length > 50000
IsTruncated(content) == TextLength(content) > TruncateAt

\* A string that is a text of runs.
Content(text) == [kind |-> "string", runs |-> text]

\* The content as returned.
Cut(content) ==
  IF IsTruncated(content)
  THEN Content(Substring(content, TruncateAt) \o TruncationMarker)
  ELSE Content(content)

\* The formats whose content is fetched.
textFormats ==
  {<<"m", "d">>, <<"t", "x", "t">>, <<"j", "s", "o", "n">>, <<"c", "s", "v">>,
   <<"h", "t", "m", "l">>, <<"x", "m", "l">>, <<"j", "s">>, <<"t", "s">>,
   <<"p", "y">>, <<"s", "q", "l">>}

\* doc.file_type?.toLowerCase(): undefined for a document without type.
Ext(doc) ==
  IF doc.file_type = NullV THEN UndefinedV
  ELSE [kind |-> "string", chars |-> ToLowerCase(doc.file_type.chars)]

\* textFormats.includes(ext)
Includes(ext) == ext.kind = "string" /\ ext.chars \in textFormats

\* `Cannot read content of .${ext} files directly. Use the URL to view:
\* ${doc.file_url}`
CannotRead(ext, file_url) ==
  [kind |-> "string", ext |-> ext, pointsTo |-> file_url]

\* `Failed to fetch: ${response.status}`
FailedToFetch(status) == TextV(<<"Failed to fetch: ", status>>)

\* filename.split('.').pop().toLowerCase(), the file name being the
\* sequence of its parts between the dots.
FileType(filename) == [kind |-> "string", chars |-> ToLowerCase(Last(filename))]

\* The row upload_document inserts for a file, and the one add_document
\* inserts, which has no file.
Uploaded(id, filename) ==
  [id |-> id, company_id |-> "c-acme", bucket_path |-> StringV("acme/file"),
   file_type |-> FileType(filename),
   file_url |-> [kind |-> "string", s |-> "https://store.example/acme/", file |-> filename]]

AddedByUrl(id) ==
  [id |-> id, company_id |-> "c-acme", bucket_path |-> NullV,
   file_type |-> NullV, file_url |-> NullV]

\* get_document_content: the select of the document settles:
\* `if (error) throw error`; a format outside the list ends the call with
\* the pointer to the file.
SelectContent(k, ok) ==
  LET call == handlerCalls[k]
      found == SelectSeq(db.documents, LAMBDA r : r.id = call.args.id)
      doc == found[1]
  IN /\ call.pc = "select_content"
     /\ handlerCalls' =
          [handlerCalls EXCEPT ![k] =
             IF ~ok \/ Len(found) # 1
             THEN [call EXCEPT !.pc = "done",
                               !.failed = Logged(call, ok, "select document"),
                               !.outcome = Threw(IF ok THEN NoSingleRow ELSE StoreFailure)]
             ELSE IF ~Includes(Ext(doc))
             THEN [call EXCEPT !.pc = "done", !.doc = RowV(doc),
                               !.outcome =
                                 Returned([document |-> doc, content |-> NullV,
                                           message |-> CannotRead(Ext(doc), doc.file_url)])]
             ELSE [call EXCEPT !.pc = "fetch_content", !.doc = RowV(doc)]]
     /\ UNCHANGED <<db, mails>>
     /\ UNCHANGED outsideStore

\* get_document_content: fetch(doc.file_url) settles: the text of an ok
\* response is returned, cut when it is long; a response that is not ok
\* and a failed fetch end in the catch.
FetchContent(k, outcome) ==
  LET call == handlerCalls[k]
      doc == call.doc.row
      value ==
        CASE outcome.kind = "failed" ->
               [document |-> doc, content |-> NullV, error |-> TextV(<<FetchFailed>>)]
          [] outcome.kind = "response" /\ ~outcome.ok ->
               [document |-> doc, content |-> NullV, error |-> FailedToFetch(outcome.status)]
          [] OTHER ->
               [document |-> doc, content |-> Cut(outcome.text),
                truncated |-> IsTruncated(outcome.text)]
  IN /\ call.pc = "fetch_content"
     /\ handlerCalls' =
          [handlerCalls EXCEPT ![k] =
             [call EXCEPT !.pc = "done",
                          !.fetches = Append(@, [url |-> doc.file_url, outcome |-> outcome]),
                          !.outcome = Returned(value)]]
     /\ UNCHANGED <<db, mails>>
     /\ UNCHANGED outsideStore

\* The texts a fetch delivers: empty, one character short of the limit, of
\* the limit, and one and two characters longer.
FetchedTexts ==
  {<<>>, <<Run("a", TruncateAt - 1)>>, <<Run("a", TruncateAt)>>,
   <<Run("a", TruncateAt), Run("b", 1)>>, <<Run("a", TruncateAt - 1), Run("b", 3)>>}

FetchOutcomes ==
  {[kind |-> "failed"], [kind |-> "response", ok |-> FALSE, status |-> "404"]}
    \cup {[kind |-> "response", ok |-> TRUE, status |-> "200", text |-> text] :
            text \in FetchedTexts}

\* Files as they were uploaded, one with an upper-case extension, one
\* without a dot in its name, and a document without a file.
ContentDocuments ==
  <<Uploaded(1, <<<<"n", "o", "t", "e", "s">>, <<"T", "X", "T">>>>),
    Uploaded(2, <<<<"d", "e", "c", "k">>, <<"p", "d", "f">>>>),
    Uploaded(3, <<<<"d", "a", "t", "a">>, <<"t", "a", "r">>, <<"s", "q", "l">>>>),
    Uploaded(4, <<<<"R", "E", "A", "D", "M", "E">>>>),
    AddedByUrl(5)>>

ContentInit ==
  /\ TransportIdle
  /\ deployment_components = <<>>
  /\ HealthIdle
  /\ SseIdle
  /\ db = [SeedDb EXCEPT !.documents = ContentDocuments]
  /\ handlerCalls = <<>>
  /\ mails = <<>>

ContentIds == {1, 2, 3, 4, 5, 9}

ContentNext ==
  \/ \E id \in ContentIds : Call("get_document_content", Args("", id, UndefinedV))
  \/ \E k \in DOMAIN handlerCalls, ok \in BOOLEAN : SelectContent(k, ok)
  \/ \E k \in DOMAIN handlerCalls, outcome \in FetchOutcomes : FetchContent(k, outcome)

SpecContent == ContentInit /\ [][ContentNext]_vars

\* send_project_update calls to two recipients, overlapping at will.
Recipients == {"ops@example.com", "board@example.com"}

MailNext ==
  \/ \E to \in Recipients, include_details \in BOOLEAN, configured \in BOOLEAN :
       SendProjectUpdate(to, include_details, configured)
  \/ \E k \in DOMAIN handlerCalls, ok \in BOOLEAN : SelectPortfolio(k, ok)
  \/ \E k \in DOMAIN handlerCalls, ok \in BOOLEAN : SendMail(k, ok)
  \/ \E k \in DOMAIN handlerCalls, ok \in BOOLEAN : InsertEmailActivity(k, ok)

SpecMail == StoreInit /\ [][MailNext]_vars

\* Largest number of milestones of the company whose progress is computed.
MaxMilestones == 40

\* The milestones of a company of which the first `done` are done.
MilestonesWith(company_id, done, total) ==
  [i \in 1..total |->
     [id |-> i, company_id |-> company_id, order_index |-> i - 1,
      status |-> IF i <= done THEN "done" ELSE "pending", completed_at |-> NullV]]

\* One company has any number of milestones any number of which are done,
\* one has a pending milestone and one has none.
PortfolioInit ==
  /\ TransportIdle
  /\ deployment_components = <<>>
  /\ HealthIdle
  /\ SseIdle
  /\ \E total \in 0..MaxMilestones : \E done \in 0..total :
       db = [SeedDb EXCEPT !.milestones =
               MilestonesWith("c-acme", done, total)
                 \o <<[id |-> total + 1, company_id |-> "c-globex", order_index |-> 5,
                       status |-> "pending", completed_at |-> NullV]>>]
  /\ handlerCalls = <<>>
  /\ mails = <<>>

PortfolioNext ==
  \/ Call("get_portfolio_summary", Args("", 0, UndefinedV))
  \/ \E include_details \in BOOLEAN : SendProjectUpdate("ops@example.com", include_details, TRUE)
  \/ \E k \in DOMAIN handlerCalls, ok \in BOOLEAN : SelectSummary(k, ok)
  \/ \E k \in DOMAIN handlerCalls, ok \in BOOLEAN : SelectPortfolio(k, ok)
  \/ \E k \in DOMAIN handlerCalls, ok \in BOOLEAN : SendMail(k, ok)
  \/ \E k \in DOMAIN handlerCalls, ok \in BOOLEAN : InsertEmailActivity(k, ok)

SpecPortfolio == PortfolioInit /\ [][PortfolioNext]_vars

(***************************************************************************)
(* Properties of the store-backed handlers                                 *)
(***************************************************************************)

Finished(call) == call.pc = "done"
Succeeded(call) == call.outcome.kind = "returned"
Failed(call) == call.outcome.kind = "threw"

\* C15: the milestone an add_milestone call inserts carries the largest
\* order_index of the milestones its company has at that moment plus one,
\* and 0 when the company has none; the milestones of other companies do
\* not count.
C15_OrderIndexIsMaxPlusOne ==
  [][\A k \in DOMAIN handlerCalls :
       InsertRow(k, TRUE) /\ handlerCalls[k].handler = "add_milestone" =>
         LET existing == OrderIndexes(db.milestones, handlerCalls[k].company.row.id)
         IN Last(db'.milestones).order_index =
              IF existing = {} THEN 0 ELSE Max(existing) + 1]_vars

\* What the code keeps: a call whose read of the maximum succeeded inserts
\* the largest order_index its company had at that read plus one, or 0.
OrderIndexIsMaxPlusOneAtTheRead ==
  [][\A k \in DOMAIN handlerCalls :
       ReadMax(k, TRUE) =>
         LET existing == OrderIndexes(db.milestones, handlerCalls[k].company.row.id)
         IN handlerCalls'[k].order_index =
              IF existing = {} THEN 0 ELSE Max(existing) + 1]_vars

\* C16: no two milestones of one company carry the same order_index.
C16_OrderIndexesDistinct ==
  \A i, j \in 1..Len(db.milestones) :
    /\ i # j
    /\ db.milestones[i].company_id = db.milestones[j].company_id
    => db.milestones[i].order_index # db.milestones[j].order_index

UpdatingTables == {"milestones", "dev_tasks"}

\* The call k updates the i-th row of the table.
Targets(k, table, i) ==
  /\ UpdatedTable(handlerCalls[k].handler) = table
  /\ db[table][i].id = handlerCalls[k].args.id

\* C17: a successful update_milestone or update_dev_task call with status
\* 'done' leaves completed_at of its row non-null; one with any other
\* status, or with none, leaves completed_at as it was; no step takes
\* completed_at of any row from non-null to null.
C17_CompletedAtAppendOnly ==
  [][\A table \in UpdatingTables :
       \A i \in 1..Len(db[table]) :
         /\ db[table][i].completed_at # NullV => db'[table][i].completed_at # NullV
         /\ \A k \in DOMAIN handlerCalls :
              UpdateRow(k, TRUE) /\ Targets(k, table, i) =>
                IF handlerCalls[k].args.status = StringV("done")
                THEN db'[table][i].completed_at = TimeV(handlerCalls[k].at)
                ELSE db'[table][i].completed_at = db[table][i].completed_at]_vars

\* A milestone was set to 'done' by a first call and to 'blocked' by a
\* second one, and still carries the completed_at of the first.
C17_Witness ==
  /\ Len(handlerCalls) = 2
  /\ \A k \in 1..2 : Succeeded(handlerCalls[k]) /\ handlerCalls[k].handler = "update_milestone"
  /\ handlerCalls[1].args.status = StringV("done")
  /\ db.milestones[2].status = "blocked"
  /\ db.milestones[2].completed_at = TimeV(1)

CompanySlugs == {db.companies[i].slug : i \in 1..Len(db.companies)}
CompanyOfSlug(slug) == CHOOSE c \in {db.companies[i] : i \in 1..Len(db.companies)} : c.slug = slug

\* The calls that returned after inserting into a table.
InsertedInto(table) ==
  {k \in DOMAIN handlerCalls :
     /\ handlerCalls[k].handler \in Adding
     /\ ChildTable(handlerCalls[k].handler) = table
     /\ Succeeded(handlerCalls[k])}

ChildTables == {ChildTable(handler) : handler \in Adding}

\* C18: an adding handler called with a slug that no company has fails
\* with 'Company not found: <slug>'; each table holds its initial rows and
\* one row for each call that returned from inserting into it, so the calls
\* that failed left every table as it was; every row a call created belongs
\* to the company that has the call's slug.
C18_UnknownSlugFailsWithoutTrace ==
  /\ \A k \in DOMAIN handlerCalls :
       LET call == handlerCalls[k]
       IN /\ Finished(call) /\ call.args.slug \notin CompanySlugs
             => call.outcome = Threw(CompanyNotFound(call.args.slug))
          /\ Succeeded(call) =>
               /\ call.args.slug \in CompanySlugs
               /\ call.outcome.value.row.company_id = CompanyOfSlug(call.args.slug).id
               /\ \E i \in 1..Len(db[ChildTable(call.handler)]) :
                    db[ChildTable(call.handler)][i] = call.outcome.value.row
  /\ \A table \in ChildTables :
       /\ Len(db[table]) = Len(SeedDb[table]) + Cardinality(InsertedInto(table))
       /\ SubSeq(db[table], 1, Len(SeedDb[table])) = SeedDb[table]
  /\ db.companies = SeedDb.companies

\* add_note with a slug no company has failed with the not-found error, no
\* store operation having failed, while add_contact for a company inserted
\* its row.
C18_Witness ==
  /\ Len(handlerCalls) = 2
  /\ handlerCalls[1].handler = "add_note"
  /\ handlerCalls[1].args.slug = "no-such-company"
  /\ handlerCalls[1].failed = <<>>
  /\ handlerCalls[1].outcome = Threw(CompanyNotFound("no-such-company"))
  /\ handlerCalls[2].handler = "add_contact"
  /\ Succeeded(handlerCalls[2])
  /\ db.activity = <<>>
  /\ Len(db.contacts) = 1

\* C19: a lookup-by-slug call whose company lookup failed in the store
\* fails with the store's error, never with 'Company not found'.
C19_StoreFailureIsNotNotFound ==
  \A k \in DOMAIN handlerCalls :
    LET call == handlerCalls[k]
    IN Finished(call) /\ call.handler \in BySlug /\ call.failed = <<"resolve company">>
         => /\ Failed(call)
            /\ call.outcome # Threw(CompanyNotFound(call.args.slug))

\* What the code keeps: such a call fails, in the words of the not-found
\* error, and writes nothing.
StoreFailureReportedAsNotFound ==
  \A k \in DOMAIN handlerCalls :
    LET call == handlerCalls[k]
    IN Finished(call) /\ call.handler \in BySlug /\ call.failed = <<"resolve company">>
         => call.outcome = Threw(CompanyNotFound(call.args.slug))

\* C20: a handler call one of whose store or mail operations failed does
\* not return a success result.
C20_FailedOperationFailsTheCall ==
  \A k \in DOMAIN handlerCalls :
    Succeeded(handlerCalls[k]) => handlerCalls[k].failed = <<>>

\* What the code keeps: the operations whose error is looked at end the
\* call with that error.
CheckedOperations ==
  {"select portfolio", "send mail", "insert", "select milestones", "delete document",
   "update"}

CheckedFailureFailsTheCall ==
  \A k \in DOMAIN handlerCalls :
    LET call == handlerCalls[k]
    IN /\ Succeeded(call) =>
            \A i \in 1..Len(call.failed) : call.failed[i] \notin CheckedOperations
       /\ Finished(call) /\ call.failed # <<>> /\ Last(call.failed) \in CheckedOperations =>
            call.outcome \in {Threw(StoreFailure), Threw(MailFailure)}

\* check_deployment_health has returned its result map after an update of
\* a component's status failed.
HealthReturnedAfterFailedUpdate ==
  healthPc = "returned" /\ storeFailures # <<>>

\* The rows of the activity table that name the recipient, and the
\* send_project_update calls to the recipient that are in the given set.
EmailRowsTo(to) ==
  {i \in 1..Len(db.activity) : db.activity[i].content = SentPortfolioUpdateTo(to)}
SendsTo(to, calls_) ==
  {k \in calls_ : handlerCalls[k].handler = "send_project_update"
                    /\ handlerCalls[k].args.to = to}
MailsTo(to) == {i \in 1..Len(mails) : mails[i].to = to}

\* C21: every row send_project_update appends has no company, type 'email'
\* and a content naming the recipient, with include_details true or false;
\* for each recipient there are exactly as many such rows as calls that
\* reported success, so every successful call logged its send and a failed
\* one logged nothing; and there are never more rows than accepted mails.
C21_EverySuccessfulSendIsLogged ==
  /\ \A i \in 1..Len(db.activity) :
       /\ db.activity[i].company_id = NullV
       /\ db.activity[i].type = "email"
       /\ \E to \in Recipients : db.activity[i].content = SentPortfolioUpdateTo(to)
  /\ \A to \in Recipients :
       /\ Cardinality(EmailRowsTo(to)) <= Cardinality(MailsTo(to))
       /\ (\A k \in DOMAIN handlerCalls : Finished(handlerCalls[k])) =>
            Cardinality(EmailRowsTo(to)) =
              Cardinality(SendsTo(to, {j \in DOMAIN handlerCalls : Succeeded(handlerCalls[j])}))

\* What the code keeps: the rows have that shape, a row is written only by
\* a call whose mail was accepted, and a call that failed wrote none.
EmailRowOnlyAfterAcceptedMail ==
  /\ \A i \in 1..Len(db.activity) :
       /\ db.activity[i].company_id = NullV
       /\ db.activity[i].type = "email"
       /\ \E to \in Recipients : db.activity[i].content = SentPortfolioUpdateTo(to)
  /\ \A to \in Recipients :
       /\ Cardinality(EmailRowsTo(to)) <= Cardinality(MailsTo(to))
       /\ Cardinality(EmailRowsTo(to)) <=
            Cardinality(SendsTo(to, {j \in DOMAIN handlerCalls : Succeeded(handlerCalls[j])}))
  /\ \A k \in DOMAIN handlerCalls :
       Succeeded(handlerCalls[k]) => \E i \in 1..Len(mails) : mails[i].by = k

\* A send_project_update call returned success although its insert of the
\* activity row failed: the mail went out and the table holds no row.
SentWithoutActivityRow ==
  /\ Len(handlerCalls) = 1
  /\ Succeeded(handlerCalls[1])
  /\ handlerCalls[1].failed = <<"insert activity">>
  /\ Len(mails) = 1
  /\ db.activity = <<>>

\* 100 * done / total rounded to the nearest integer, a half upwards.
RoundedPercent(done, total) == (200 * done + total) \div (2 * total)

\* The entries the get_portfolio_summary calls returned, and the rows the
\* send_project_update calls rendered, for the i-th company.
EntriesOf(i) ==
  {handlerCalls[k].outcome.value[i] :
     k \in {j \in DOMAIN handlerCalls :
              handlerCalls[j].handler = "get_portfolio_summary" /\ Succeeded(handlerCalls[j])}}
RenderedOf(i) == {mails[j].table[i] : j \in 1..Len(mails)}

\* C22: for every company the progress get_portfolio_summary reports is
\* round(100 * done / total), total being the number of its milestones
\* and done the number of them with status 'done', and 0 when total is 0;
\* it is an integer from 0 to 100 and the value send_project_update
\* renders for the same data.
C22_ProgressIsRoundedPercentage ==
  \A i \in 1..Len(db.companies) :
    LET total == Len(MilestonesOf(db.companies[i]))
        done == Len(DoneOf(db.companies[i]))
    IN /\ \A entry \in EntriesOf(i) :
            /\ entry.progress = IF total = 0 THEN 0 ELSE RoundedPercent(done, total)
            /\ entry.progress \in 0..100
            /\ \A row \in RenderedOf(i) : row.progress = entry.progress
       /\ \A row \in RenderedOf(i) :
            row.progress = IF total = 0 THEN 0 ELSE RoundedPercent(done, total)

\* What the code keeps: the progress is an integer from 0 to 100 that lies
\* within a half of 100 * done / total, is 0 when total is 0, and is the
\* same in the summary and in the mail.
ProgressIsANearestInteger ==
  \A i \in 1..Len(db.companies) :
    LET total == Len(MilestonesOf(db.companies[i]))
        done == Len(DoneOf(db.companies[i]))
        Near(p) == /\ p \in 0..100
                   /\ 2 * total * p <= 200 * done + total
                   /\ 200 * done <= 2 * total * p + total
    IN /\ \A entry \in EntriesOf(i) :
            /\ Near(entry.progress)
            /\ entry.milestones = [done |-> done, total |-> total]
            /\ \A row \in RenderedOf(i) : row.progress = entry.progress
       /\ \A row \in RenderedOf(i) : Near(row.progress)

\* A company with 23 of its 40 milestones done is reported at 57 percent.
ProgressBelowTheHalf ==
  /\ Len(MilestonesOf(db.companies[1])) = 40
  /\ Len(DoneOf(db.companies[1])) = 23
  /\ \E entry \in EntriesOf(1) : entry.progress = 57
  /\ \E row \in RenderedOf(1) : row.progress = 57

\* One with 1 of its 8 milestones done is reported at 13 percent.
ProgressAboveTheHalf ==
  /\ Len(MilestonesOf(db.companies[1])) = 8
  /\ Len(DoneOf(db.companies[1])) = 1
  /\ \E entry \in EntriesOf(1) : entry.progress = 13

\* The add_deployment calls whose name has the slug.
AddsOf(slug) ==
  {k \in DOMAIN handlerCalls :
     handlerCalls[k].handler = "add_deployment" /\ Slug(handlerCalls[k].args.name) = slug}

ComponentsOf(id) ==
  SelectSeq(deployment_components, LAMBDA r : r.deployment_id = id)

\* C23: no two deployments have the same slug, the slug of a deployment is
\* its name lowercased with every run of non-alphanumeric characters
\* replaced by one hyphen and the hyphens at its ends removed, and an
\* add_deployment call for a slug that a deployment had when the call was
\* made fails with the collision error, the deployment still being the
\* only one of its slug and no component having been added for the call.
C23_SlugsAreDistinct ==
  /\ \A i, j \in 1..Len(db.deployments) :
       i # j => db.deployments[i].slug # db.deployments[j].slug
  /\ \A i \in 1..Len(db.deployments) :
       db.deployments[i].slug = Slug(db.deployments[i].name)
  /\ \A k \in DOMAIN handlerCalls :
       LET call == handlerCalls[k]
       IN /\ call.handler = "add_deployment"
          /\ Finished(call)
          /\ \E i \in 1..Len(SeedDeployments) :
               SeedDeployments[i].slug = Slug(call.args.name)
          => call.outcome = Threw(AlreadyExists(Slug(call.args.name)))

\* Two overlapping add_deployment calls whose names have one slug both
\* created their deployment, no store operation having failed.
TwoDeploymentsOfOneSlug ==
  /\ Len(handlerCalls) = 2
  /\ \A k \in 1..2 : Succeeded(handlerCalls[k]) /\ handlerCalls[k].failed = <<>>
  /\ handlerCalls[1].args.name # handlerCalls[2].args.name
  /\ Len(db.deployments) = 3
  /\ db.deployments[2].slug = db.deployments[3].slug

\* What the code keeps: the slug of every deployment is the normalized
\* name, and a call that failed without a failure of the store failed with
\* the collision error, a deployment having its slug.
SlugCollisionFoundWhenAlone ==
  /\ \A i \in 1..Len(db.deployments) :
       db.deployments[i].slug = Slug(db.deployments[i].name)
  /\ \A k \in DOMAIN handlerCalls :
       LET call == handlerCalls[k]
       IN /\ call.handler = "add_deployment"
          /\ Finished(call)
          /\ call.failed = <<>>
          /\ Failed(call)
          => /\ call.outcome = Threw(AlreadyExists(Slug(call.args.name)))
             /\ \E i \in 1..Len(db.deployments) :
                  db.deployments[i].slug = Slug(call.args.name)

ComponentTypes == {"github", "frontend", "mcp_server", "database"}

\* The deployment has four components, one of each type.
HasItsComponents(id) ==
  /\ Len(ComponentsOf(id)) = 4
  /\ {ComponentsOf(id)[i].component_type : i \in 1..Len(ComponentsOf(id))} = ComponentTypes

\* The deployment is between the two inserts of the call that creates it.
BeingCreated(id) ==
  \E k \in DOMAIN handlerCalls :
    handlerCalls[k].pc = "insert_components" /\ handlerCalls[k].deployment.row.id = id

\* C24: every deployment that is not between the two inserts of its
\* add_deployment call has exactly four components, one each of the types
\* github, frontend, mcp_server and database; and an add_deployment call
\* that failed with the collision error was blocked by a deployment that
\* has its components, not by a row left without them.
C24_FourComponentsEach ==
  /\ \A i \in 1..Len(db.deployments) :
       ~BeingCreated(db.deployments[i].id) => HasItsComponents(db.deployments[i].id)
  /\ \A k \in DOMAIN handlerCalls :
       LET call == handlerCalls[k]
       IN call.handler = "add_deployment"
          /\ call.outcome = Threw(AlreadyExists(Slug(call.args.name)))
          => \E i \in 1..Len(db.deployments) :
               /\ db.deployments[i].slug = Slug(call.args.name)
               /\ HasItsComponents(db.deployments[i].id)

\* The component insert of a first call failed and left its deployment
\* row without components; a second call with the same name was refused
\* because of that row.
LeftoverRowBlocksLaterCall ==
  /\ Len(handlerCalls) = 2
  /\ handlerCalls[1].failed = <<"insert components">>
  /\ handlerCalls[1].outcome = Threw(StoreFailure)
  /\ handlerCalls[2].args.name = handlerCalls[1].args.name
  /\ handlerCalls[2].at = 2
  /\ handlerCalls[2].failed = <<>>
  /\ handlerCalls[2].outcome = Threw(AlreadyExists(Slug(handlerCalls[2].args.name)))
  /\ Len(db.deployments) = 2
  /\ ComponentsOf(db.deployments[2].id) = <<>>

\* What the code keeps: a deployment whose creating call inserted its
\* components has the four of them, and a deployment has none or four.
FourComponentsOrNone ==
  \A i \in 1..Len(db.deployments) :
    \/ HasItsComponents(db.deployments[i].id)
    \/ ComponentsOf(db.deployments[i].id) = <<>>

\* The file type of the row is one of the ten of the allow-list.
InAllowList(doc) == doc.file_type # NullV /\ doc.file_type.chars \in textFormats

\* The first n characters of the text and the marker.
FirstCharactersAndMarker(text, n) == Substring(text, n) \o TruncationMarker

TextOfTheLimitReturnedWhole ==
  \E k \in DOMAIN handlerCalls :
    /\ handlerCalls[k].args.id = 1
    /\ Succeeded(handlerCalls[k])
    /\ handlerCalls[k].outcome.value.content = Content(<<Run("a", 50000)>>)
    /\ handlerCalls[k].outcome.value.truncated = FALSE

\* The update_deployment_component calls with a config that succeeded, and
\* the stored config of the component they updated.
ConfigUpdates ==
  {k \in DOMAIN handlerCalls :
     /\ handlerCalls[k].handler = "update_deployment_component"
     /\ Succeeded(handlerCalls[k])
     /\ Truthy(handlerCalls[k].args.config)}
StoredConfig(args) ==
  (CHOOSE r \in Range(deployment_components) : IsComponent(r, args)).config.fields
InitialConfig == [repo_url |-> TextV(<<"https://github.example/acme">>),
                  branch |-> StringV("main")]

\* C26: after update_deployment_component calls with a config, the
\* stored config of the component holds every supplied key with the value
\* supplied for it, when no other call supplied that key, and every key
\* it had before that no call supplied with its previous value; so after
\* two updates with disjoint keys, in any interleaving, both keys are
\* present.
C26_ConfigUpdatesAreMerged ==
  \A k \in ConfigUpdates :
    LET args == handlerCalls[k].args
        supplied == args.config.fields
        others == UNION {DOMAIN handlerCalls[j].args.config.fields :
                           j \in ConfigUpdates \ {k}}
    IN /\ \A key \in DOMAIN supplied \ others :
            key \in DOMAIN StoredConfig(args) /\ StoredConfig(args)[key] = supplied[key]
       /\ \A key \in DOMAIN InitialConfig \ (DOMAIN supplied \cup others) :
            key \in DOMAIN StoredConfig(args) /\ StoredConfig(args)[key] = InitialConfig[key]

\* Two overlapping updates, of the keys token and owner, both succeeded
\* without any failure of the store, and the stored config has lost one.
ConfigKeyLost ==
  /\ Len(handlerCalls) = 2
  /\ \A k \in 1..2 : k \in ConfigUpdates /\ handlerCalls[k].failed = <<>>
  /\ handlerCalls[1].args.config = ObjectV([token |-> StringV("t-1")])
  /\ handlerCalls[2].args.config = ObjectV([owner |-> StringV("ops")])
  /\ DOMAIN StoredConfig(handlerCalls[1].args) = {"repo_url", "branch", "owner"}

\* What the code keeps: the config a call stores is the one it read
\* with the supplied keys laid over it.
StoredIsReadPlusSupplied ==
  [][\A k \in DOMAIN handlerCalls :
       UpdateComponent(k, TRUE) /\ k \in ConfigUpdates' =>
         \E read \in {InitialConfig} \cup {<<>>}
                    \cup {handlerCalls[j].updates.config.fields :
                            j \in {i \in DOMAIN handlerCalls :
                                     "config" \in DOMAIN handlerCalls[i].updates}} :
           StoredConfig(handlerCalls[k].args)' =
             Spread(read, handlerCalls[k].args.config.fields)]_vars

(***************************************************************************)
(* Termination of the agent loop                                           *)
(***************************************************************************)

\* The completion responses received so far that ask for tools.
ToolRounds ==
  Cardinality({i \in 1..Len(received) : received[i].stop_reason = "tool_use"})

\* The request has sent its first completion request.
InLoop == req.endpoint = "chat" /\ completions # <<>>

\* C27: a POST /chat request is eventually answered, every completion
\* request and every handler call settling and the API at last answering
\* without asking for tools; a request that has sent its first completion
\* request is answered after exactly one completion request more than the
\* responses that asked for tools; it is answered 200 only at the first
\* response that does not ask for tools and 500 only when a completion
\* request failed, and until then every response that asks for tools is
\* followed by a further completion request.
C27_ChatEventuallyResponds ==
  /\ (req.endpoint = "chat") ~> (pc = "done" /\ responses # <<>>)
  /\ [](InLoop /\ pc = "done" => Len(completions) = ToolRounds + 1)
  /\ [](InLoop /\ pc # "done" => Len(completions) \in {ToolRounds, ToolRounds + 1})
  /\ [](InLoop /\ ChatAnswered(200) =>
          /\ received # <<>>
          /\ Last(received).stop_reason # "tool_use"
          /\ \A i \in 1..(Len(received) - 1) : received[i].stop_reason = "tool_use")
  /\ [](InLoop /\ ChatAnswered(500) =>
          /\ thrown # <<>>
          /\ Last(thrown).kind = "completion"
          /\ \A i \in 1..Len(received) : received[i].stop_reason = "tool_use")
  /\ [](InLoop /\ pc = "forBlocks" => <>(pc = "awaitCompletion"))

\* The request was answered 200 after as many rounds as the API asked for
\* and one completion request more.
C27_Witness ==
  /\ ChatAnswered(200)
  /\ ToolRounds = MaxRounds
  /\ Len(completions) = MaxRounds + 1
  /\ Len(invoked) >= MaxRounds

(***************************************************************************)
(* update_company_status and update_requirement                            *)
(***************************************************************************)

\* Companies with their status, and requirements whose items are texts,
\* one character at a time: two of one company name the API, one of
\* another company does too.
StatusCompanies ==
  <<[id |-> "c-acme", slug |-> "acme", status |-> "active", updated_at |-> TimeV(0)],
    [id |-> "c-globex", slug |-> "globex", status |-> "active", updated_at |-> TimeV(0)]>>

SeedRequirements ==
  <<[id |-> 1, company_id |-> "c-acme", item |-> <<"A", "P", "I", " ", "k", "e", "y">>,
     status |-> "pending", updated_at |-> TimeV(0)],
    [id |-> 2, company_id |-> "c-acme", item |-> <<"L", "o", "g", "o">>,
     status |-> "pending", updated_at |-> TimeV(0)],
    [id |-> 3, company_id |-> "c-acme", item |-> <<"a", "p", "i", " ", "d", "o", "c", "s">>,
     status |-> "pending", updated_at |-> TimeV(0)],
    [id |-> 4, company_id |-> "c-globex", item |-> <<"A", "p", "i", " ", "k", "e", "y">>,
     status |-> "pending", updated_at |-> TimeV(0)]>>

\* text contains part.
Contains(text, part) ==
  \E i \in 0..(Len(text) - Len(part)) : SubSeq(text, i + 1, i + Len(part)) = part

\* .ilike('item', `%${item}%`) for an item without pattern characters:
\* the column contains the item, letter case ignored.
ILike(text, item) == Contains(ToLowerCase(text), ToLowerCase(item))

\* data[0] of an update's .select(): the first updated row, in the order
\* of the table, or undefined when no row was updated.
FirstOf(rows) == IF rows = <<>> THEN UndefinedV ELSE RowV(rows[1])

\* .update({ status, updated_at: new Date().toISOString() })
WithStatus(row, call) ==
  [row EXCEPT !.status = call.args.status, !.updated_at = TimeV(call.at)]

\* The rows after an update of those that satisfy Matches, and the rows
\* the update returns.
RowsAfterUpdate(rows, call, Matches(_)) ==
  [i \in 1..Len(rows) |-> IF Matches(rows[i]) THEN WithStatus(rows[i], call) ELSE rows[i]]

\* update_company_status: the update of the rows with the slug settles.
UpdateCompanyStatus(k, ok) ==
  LET call == handlerCalls[k]
      Matches(r) == r.slug = call.args.slug
      updated == RowsAfterUpdate(db.companies, call, Matches)
  IN /\ call.pc = "update_company"
     /\ db' = IF ok THEN [db EXCEPT !.companies = updated] ELSE db
     /\ handlerCalls' =
          [handlerCalls EXCEPT ![k] =
             [call EXCEPT
                !.pc = "done",
                !.failed = Logged(call, ok, "update"),
                !.outcome =
                   IF ok
                   THEN Returned([success |-> TRUE,
                                  row |-> FirstOf(SelectSeq(updated, Matches))])
                   ELSE Threw(StoreFailure)]]
     /\ UNCHANGED mails
     /\ UNCHANGED outsideStore

\* update_requirement, after the company is resolved: the update of the
\* company's requirements that contain the item settles.
UpdateRequirements(k, ok) ==
  LET call == handlerCalls[k]
      Matches(r) == r.company_id = call.company.row.id /\ ILike(r.item, call.args.item)
      updated == RowsAfterUpdate(db.requirements, call, Matches)
  IN /\ call.pc = "update_requirements"
     /\ db' = IF ok THEN [db EXCEPT !.requirements = updated] ELSE db
     /\ handlerCalls' =
          [handlerCalls EXCEPT ![k] =
             [call EXCEPT
                !.pc = "done",
                !.failed = Logged(call, ok, "update"),
                !.outcome =
                   IF ok
                   THEN Returned([success |-> TRUE,
                                  row |-> FirstOf(SelectSeq(updated, Matches))])
                   ELSE Threw(StoreFailure)]]
     /\ UNCHANGED mails
     /\ UNCHANGED outsideStore

StatusInit ==
  /\ TransportIdle
  /\ deployment_components = <<>>
  /\ HealthIdle
  /\ SseIdle
  /\ db = [EmptyDb EXCEPT !.companies = StatusCompanies,
                          !.milestones = SeedMilestones,
                          !.requirements = SeedRequirements]
  /\ handlerCalls = <<>>
  /\ mails = <<>>

\* Items that several requirements of a company contain, that one
\* contains, and that none contains; slugs and milestone ids with and
\* without a row.
ItemInputs == {<<"a", "p", "i">>, <<"L", "O", "G", "O">>, <<"s", "s", "l">>}
RequirementStatuses == {"received", "blocked"}
CompanyStatuses == {"paused"}

StatusNext ==
  \/ \E slug \in SlugInputs, item \in ItemInputs, status \in RequirementStatuses :
       Call("update_requirement", [slug |-> slug, item |-> item, status |-> status])
  \/ \E slug \in SlugInputs, status \in CompanyStatuses :
       Call("update_company_status", [slug |-> slug, status |-> status])
  \/ \E id \in MilestoneIds : Call("update_milestone", Args("", id, StringV("done")))
  \/ \E k \in DOMAIN handlerCalls, ok \in BOOLEAN : ResolveCompany(k, ok)
  \/ \E k \in DOMAIN handlerCalls, ok \in BOOLEAN : UpdateRequirements(k, ok)
  \/ \E k \in DOMAIN handlerCalls, ok \in BOOLEAN : UpdateCompanyStatus(k, ok)
  \/ \E k \in DOMAIN handlerCalls, ok \in BOOLEAN : UpdateRow(k, ok)

SpecStatus == StatusInit /\ [][StatusNext]_vars

\* The call k of update_requirement returns in this step.
RequirementUpdateReturns(k) ==
  /\ k \in DOMAIN handlerCalls
  /\ handlerCalls[k].handler = "update_requirement"
  /\ handlerCalls[k].pc = "update_requirements"
  /\ handlerCalls'[k].outcome.kind = "returned"

\* C28: update_requirement changes the status of exactly the requirement
\* it returns: every requirement other than the returned one, of this
\* company or of any other, has after the call the status it had before,
\* also when several requirements of the company contain the item.
C28_OnlyTheReturnedRequirementChanges ==
  [][\A k \in DOMAIN handlerCalls :
       RequirementUpdateReturns(k) =>
         \A i \in DOMAIN db.requirements :
           \/ handlerCalls'[k].outcome.value.row = RowV(db'.requirements[i])
           \/ db'.requirements[i].status = db.requirements[i].status]_vars

\* What does hold: update_requirement leaves alone the requirements of
\* other companies and those that do not contain the item.
OtherCompaniesAndItemsKeepStatus ==
  [][\A k \in DOMAIN handlerCalls :
       RequirementUpdateReturns(k) =>
         \A i \in DOMAIN db.requirements :
           \/ /\ db.requirements[i].company_id = handlerCalls[k].company.row.id
              /\ ILike(db.requirements[i].item, handlerCalls[k].args.item)
           \/ db'.requirements[i] = db.requirements[i]]_vars

\* A call returned one requirement and a second requirement of the same
\* company carries the status the call set.
SecondMatchModified ==
  \E k \in DOMAIN handlerCalls :
    /\ handlerCalls[k].handler = "update_requirement"
    /\ handlerCalls[k].outcome.kind = "returned"
    /\ handlerCalls[k].outcome.value.row = RowV(db.requirements[1])
    /\ db.requirements[3].status = handlerCalls[k].args.status
    /\ db.requirements[3].updated_at = TimeV(handlerCalls[k].at)

StatusUpdaters == {"update_company_status", "update_milestone", "update_requirement"}

\* The returned object carries an updated row: data[0] is defined.
ReturnsARow(call) ==
  IF call.handler = "update_milestone" THEN call.outcome.value.found
  ELSE call.outcome.value.row # UndefinedV

\* C29: update_company_status, update_milestone and update_requirement
\* return {success: true} only when a row was updated; a call whose slug,
\* milestone id or item matches no row does not return but throws.
C29_SuccessOnlyWhenARowWasUpdated ==
  \A k \in DOMAIN handlerCalls :
    LET call == handlerCalls[k]
    IN (call.handler \in StatusUpdaters /\ call.outcome.kind = "returned")
         => ReturnsARow(call)

\* What does hold: update_requirement throws 'Company not found' for a
\* slug no company has, and touches no requirement then.
UnknownSlugOfRequirementThrows ==
  \A k \in DOMAIN handlerCalls :
    LET call == handlerCalls[k]
    IN (call.handler = "update_requirement" /\ call.args.slug = "no-such-company"
          /\ call.pc = "done")
         => call.outcome = Threw(CompanyNotFound(call.args.slug))

\* Each of the three handlers has returned success for an argument that
\* matches no row.
SuccessWithoutRow(handler) ==
  \E k \in DOMAIN handlerCalls :
    /\ handlerCalls[k].handler = handler
    /\ handlerCalls[k].outcome.kind = "returned"
    /\ handlerCalls[k].outcome.value.success
    /\ ~ReturnsARow(handlerCalls[k])

CompanyStatusSuccessWithoutRow == SuccessWithoutRow("update_company_status")
MilestoneSuccessWithoutRow == SuccessWithoutRow("update_milestone")
RequirementSuccessWithoutRow == SuccessWithoutRow("update_requirement")

(***************************************************************************)
(* get_recent_activity and list_all_documents                              *)
(***************************************************************************)

\* Activity and documents of two companies and of the platform itself
\* (company_id null), created one after the other.
SeedActivity ==
  <<[id |-> 1, company_id |-> StringV("c-acme"), created_at |-> 1],
    [id |-> 2, company_id |-> StringV("c-globex"), created_at |-> 2],
    [id |-> 3, company_id |-> NullV, created_at |-> 3],
    [id |-> 4, company_id |-> StringV("c-acme"), created_at |-> 4]>>

ListedDocuments ==
  <<[id |-> 1, company_id |-> StringV("c-acme"), category |-> "contract", created_at |-> 1],
    [id |-> 2, company_id |-> StringV("c-globex"), category |-> "contract", created_at |-> 2],
    [id |-> 3, company_id |-> NullV, category |-> "spec", created_at |-> 3],
    [id |-> 4, company_id |-> StringV("c-acme"), category |-> "spec", created_at |-> 4]>>

\* if (slug), if (category): an omitted argument and the empty string are
\* both falsy and are both written "".
Given(arg) == arg # ""

\* .order('created_at', { ascending: false }) on rows of distinct times.
NewestFirst(rows) ==
  [i \in 1..Len(rows) |->
     CHOOSE r \in Range(rows) :
       Cardinality({q \in Range(rows) : q.created_at > r.created_at}) = i - 1]

\* .limit(limit)
Limit(rows, limit) == SubSeq(rows, 1, IF limit < Len(rows) THEN limit ELSE Len(rows))

\* The slugs list_all_documents reads as "the platform's own documents".
PlatformSlugs == {"platform", "dev"}

\* Whether the handler looks the company up before its query.
LooksUp(call) ==
  /\ Given(call.args.slug)
  /\ call.handler = "list_all_documents" => call.args.slug \notin PlatformSlugs

\* The filter the query carries when it is sent: the company filter only
\* `if (company)`, the category filter only `if (category)`.
InQuery(call, row) ==
  /\ call.company # NullV => row.company_id = StringV(call.company.row.id)
  /\ (call.handler = "list_all_documents" /\ call.args.slug \in PlatformSlugs)
       => row.company_id = NullV
  /\ (call.handler = "list_all_documents" /\ Given(call.args.category))
       => row.category = call.args.category

\* The lookup of the company settles; only `data` is read.
LookupCompany(k, ok) ==
  LET call == handlerCalls[k]
  IN /\ call.pc = "lookup_company"
     /\ LooksUp(call)
     /\ handlerCalls' =
          [handlerCalls EXCEPT ![k] =
             [call EXCEPT !.pc = "select_rows",
                          !.failed = Logged(call, ok, "resolve company"),
                          !.company = IF ok THEN SingleCompany(call.args.slug) ELSE NullV]]
     /\ UNCHANGED <<db, mails>>
     /\ UNCHANGED outsideStore

\* The query settles: `if (error) throw error; return data`.
SelectRows(k, ok) ==
  LET call == handlerCalls[k]
      rows == IF call.handler = "get_recent_activity" THEN db.activity ELSE db.documents
      Filtered(r) == InQuery(call, r)
      data == NewestFirst(SelectSeq(rows, Filtered))
  IN /\ \/ call.pc = "select_rows"
        \/ call.pc = "lookup_company" /\ ~LooksUp(call)
     /\ handlerCalls' =
          [handlerCalls EXCEPT ![k] =
             [call EXCEPT
                !.pc = "done",
                !.failed = Logged(call, ok, "select"),
                !.outcome =
                   IF ~ok THEN Threw(StoreFailure)
                   ELSE IF call.handler = "get_recent_activity"
                        THEN Returned(Limit(data, call.args.limit))
                        ELSE Returned(data)]]
     /\ UNCHANGED <<db, mails>>
     /\ UNCHANGED outsideStore

ListingInit ==
  /\ TransportIdle
  /\ deployment_components = <<>>
  /\ HealthIdle
  /\ SseIdle
  /\ db = [EmptyDb EXCEPT !.companies = SeedCompanies,
                          !.activity = SeedActivity,
                          !.documents = ListedDocuments]
  /\ handlerCalls = <<>>
  /\ mails = <<>>

\* limit = 20 by default.
DefaultLimit == 20
ListingSlugs == {"", "acme", "no-such-company", "platform"}
Limits == {2, DefaultLimit}
Categories == {"", "contract"}

ListingNext ==
  \/ \E slug \in ListingSlugs, limit \in Limits :
       Call("get_recent_activity", [slug |-> slug, limit |-> limit])
  \/ \E slug \in ListingSlugs, category \in Categories :
       Call("list_all_documents", [slug |-> slug, category |-> category])
  \/ \E k \in DOMAIN handlerCalls, ok \in BOOLEAN : LookupCompany(k, ok)
  \/ \E k \in DOMAIN handlerCalls, ok \in BOOLEAN : SelectRows(k, ok)

SpecListing == ListingInit /\ [][ListingNext]_vars

\* The calls that name a company by its slug and have returned.
ReturnedForACompany ==
  {k \in DOMAIN handlerCalls :
     /\ handlerCalls[k].handler \in {"get_recent_activity", "list_all_documents"}
     /\ LooksUp(handlerCalls[k])
     /\ handlerCalls[k].outcome.kind = "returned"}

\* The row belongs to the company with the slug.
BelongsTo(row, slug) ==
  \E i \in DOMAIN db.companies :
    db.companies[i].slug = slug /\ row.company_id = StringV(db.companies[i].id)

\* C30: get_recent_activity and list_all_documents called with the slug
\* of a company return only rows of the company with that slug; for a
\* slug no company has they return no row of another company and no
\* global row.
C30_OnlyRowsOfTheNamedCompany ==
  \A k \in ReturnedForACompany :
    \A i \in DOMAIN handlerCalls[k].outcome.value :
      BelongsTo(handlerCalls[k].outcome.value[i], handlerCalls[k].args.slug)

\* What does hold: a call whose lookup found the company returns only
\* rows of that company, and list_all_documents called for the platform
\* returns only rows of no company.
FilteredWhenTheCompanyIsFound ==
  \A k \in DOMAIN handlerCalls :
    LET call == handlerCalls[k]
    IN (call.handler \in {"get_recent_activity", "list_all_documents"}
          /\ call.outcome.kind = "returned")
         => \A i \in DOMAIN call.outcome.value :
              /\ call.company # NullV => BelongsTo(call.outcome.value[i], call.args.slug)
              /\ (call.handler = "list_all_documents" /\ call.args.slug \in PlatformSlugs)
                   => call.outcome.value[i].company_id = NullV

\* A call for a slug no company has returned every row of the table, the
\* rows of the companies and the global one.
UnknownSlugReturnsEveryRow(handler, rows) ==
  \E k \in ReturnedForACompany :
    /\ handlerCalls[k].handler = handler
    /\ handlerCalls[k].args.slug = "no-such-company"
    /\ handlerCalls[k].failed = <<>>
    /\ Range(handlerCalls[k].outcome.value) = Range(rows)

ActivityOfEveryCompanyReturned ==
  UnknownSlugReturnsEveryRow("get_recent_activity", SeedActivity)
DocumentsOfEveryCompanyReturned ==
  UnknownSlugReturnsEveryRow("list_all_documents", ListedDocuments)

\* A call for the slug of a company, its lookup found, returned that
\* company's rows, newest first.
CompanyRowsReturned ==
  \E k \in ReturnedForACompany :
    /\ handlerCalls[k].args.slug = "acme"
    /\ handlerCalls[k].company # NullV
    /\ handlerCalls[k].outcome.value = <<SeedActivity[4], SeedActivity[1]>>

====
